---- MODULE Spec2Model ----
(***************************************************************************)
(* Model of the logger wrappers of github.com/memsql/ntest:                *)
(* ReplaceLogger / ExtraDetailLogger (loggerT) and BufferedLogger          *)
(* (bufferedLoggerT) stacked over a test handle, with the call-site        *)
(* resolver that walks the call stack past helper functions.               *)
(*                                                                         *)
(* A Go string is a sequence of tokens; a call stack is a sequence of      *)
(* frames, innermost frame first.                                          *)
(***************************************************************************)
EXTENDS Integers, Sequences, FiniteSets, Bags, TLC

\* ------------------------------------------------------------------------
\* Bounds of the model
\* ------------------------------------------------------------------------
MaxCalls == 2
MaxLayers == 2

\* how often a test calls the Cancel it was given, and how many callbacks
\* of its own it registers with Cleanup
MaxCancelCalls == 2
MaxOtherCleanups == 2

\* NTEST_BUFFERING as the process may find it ("" is unset)
EnvValues == {"false", "true", ""}

\* the line of the test function on which its k-th logging statement stands
UserLine(k) == 253 + k

\* how a statement of the test logs: the method, and whether the statement
\* is in the test function or in a helper function of the test
UserCallKinds == {<<"Log", "direct">>, <<"Logf", "direct">>, <<"Log", "helper">>}

\* the message logged by the k-th call of the test
MsgTok == <<"alpha", "bravo", "charlie", "delta", "echo", "foxtrot">>

\* ------------------------------------------------------------------------
\* Text: fmt and path/filepath as the code uses them
\* ------------------------------------------------------------------------
Digit(d) == <<"0", "1", "2", "3", "4", "5", "6", "7", "8", "9">>[d + 1]

RECURSIVE Itoa(_)
Itoa(n) == IF n < 10 THEN <<Digit(n)>>
           ELSE Itoa(n \div 10) \o <<Digit(n % 10)>>

\* fmt.Sprintln(args...): the operands separated by a space, then a newline
RECURSIVE Sprintln(_)
Sprintln(args) ==
    IF args = <<>> THEN <<"\n">>
    ELSE IF Len(args) = 1 THEN Head(args) \o <<"\n">>
    ELSE Head(args) \o <<" ">> \o Sprintln(Tail(args))

\* line[0 : len(line)-1]
StripLast(s) == SubSeq(s, 1, Len(s) - 1)

\* fmt.Sprintf(format, args...): format is a sequence of tokens in which
\* "%s" and "%d" are verbs; every verb consumes the next operand
RECURSIVE Sprintf(_, _)
Sprintf(format, args) ==
    IF format = <<>> THEN <<>>
    ELSE IF Head(format) = "%s"
         THEN Head(args) \o Sprintf(Tail(format), Tail(args))
    ELSE IF Head(format) = "%d"
         THEN Itoa(Head(args)) \o Sprintf(Tail(format), Tail(args))
    ELSE <<Head(format)>> \o Sprintf(Tail(format), args)

\* filepath.Base of a path given as its components
Base(path) == IF path = <<>> THEN <<".">> ELSE <<path[Len(path)]>>

\* ------------------------------------------------------------------------
\* Source files and the frames the wrappers put on the stack
\* ------------------------------------------------------------------------
LoggerGo == <<"ntest", "logger.go">>
TestGo == <<"ntest", "logger_test.go">>
TestingGo == <<"testing", "testing.go">>

Frame(fn, file, line) == [fn |-> fn, file |-> file, line |-> line]

\* what is below every test function
RunnerFrames == <<Frame("testing.tRunner", TestingGo, 1792),
                  Frame("runtime.goexit", <<"runtime", "asm.s">>, 1700)>>

\* the test function itself, standing on a statement at line l
TestFrame(l) == Frame("TestFn", TestGo, l)

\* a helper function of the test, standing on its own Log statement
UserHelperFrame == Frame("userHelper", TestGo, 300)


\* the user statement a call is made from: the test function itself, or a
\* helper function of the test called from line l of the test function
UserStack(caller, l) ==
    IF caller = "helper"
    THEN <<UserHelperFrame, TestFrame(l)>> \o RunnerFrames
    ELSE <<TestFrame(l)>> \o RunnerFrames

\* a Log or Logf call: the method, the format (Logf only), the operands
LogCall(args) == [method |-> "Log", format |-> <<>>, args |-> args]
LogfCall(format, args) == [method |-> "Logf", format |-> format, args |-> args]

\* mutant: Log keeps the newline of Sprintln
FormatCallKeepNewline(call) ==
    IF call.method = "Log"
    THEN Sprintln(call.args)
    ELSE Sprintf(call.format, call.args)

\* the message a handle makes of a call: loggerT.Log / Logf and
\* bufferedLoggerT.Log / Logf format alike
FormatCall(call) ==
    IF call.method = "Log"
    THEN StripLast(Sprintln(call.args))
    ELSE Sprintf(call.format, call.args)

\* time.Now().Format("15:04:05")
TimeStamp == <<"15:04:05">>

\* ------------------------------------------------------------------------
\* Helper registry of bufferedLoggerT (helpers, seen)
\* ------------------------------------------------------------------------
maxFrames == 32

\* mutant: the map of helpers is made anew for the function marked
markHelperForgetsOthers(reg, fn) ==
    IF fn \in reg.seen THEN reg
    ELSE [seen |-> reg.seen \cup {fn},
          helpers |-> IF fn # "" THEN {fn} ELSE reg.helpers]

\* markHelper: fn is the function of the frame that called Helper().  Every
\* modelled function calls Helper() from one place, so its pc stands for it.
markHelper(reg, fn) ==
    IF fn \in reg.seen THEN reg
    ELSE [seen |-> reg.seen \cup {fn},
          helpers |-> IF fn # "" THEN reg.helpers \cup {fn} ELSE reg.helpers]

isHelper(hs, fn) == fn \in hs

\* mutant: the buffer for the frames is as long as the stack
CallersUnbounded(skip, stack) ==
    IF skip > Len(stack) THEN <<>> ELSE SubSeq(stack, skip, Len(stack))

\* runtime.Callers(skip, pcs) over a stack whose first frame is the caller
\* of runtime.Callers (skip = 1)
Callers(skip, stack) ==
    IF skip > Len(stack) THEN <<>>
    ELSE SubSeq(stack, skip,
                IF Len(stack) < skip + maxFrames - 1
                THEN Len(stack) ELSE skip + maxFrames - 1)

\* the loop of logMessage: the first frame whose function is not a helper
RECURSIVE ResolveFrom(_, _, _)
ResolveFrom(frames, i, hs) ==
    IF frames = <<>>
    THEN [file |-> Base(<<>>), line |-> 0]
    ELSE IF ~isHelper(hs, frames[i].fn)
         THEN [file |-> Base(frames[i].file), line |-> frames[i].line]
    ELSE IF i = Len(frames)
         THEN [file |-> <<"unknown">>, line |-> 0]
    ELSE ResolveFrom(frames, i + 1, hs)

\* frames of bufferedLoggerT.logMessage and bufferedLoggerT.Log / Logf
LogMessageFrame == Frame("bufferedLoggerT.logMessage", LoggerGo, 152)
BufferedLogFrame(method) ==
    IF method = "Log"
    THEN Frame("bufferedLoggerT.Log", LoggerGo, 196)
    ELSE Frame("bufferedLoggerT.Logf", LoggerGo, 203)

\* number of frames logMessage skips: runtime.Callers, logMessage, Log/Logf
CallersSkip == 3

\* mutant: the walk starts at the frame of logMessage
resolveSiteSkipOne(method, stack, hs) ==
    ResolveFrom(Callers(1, <<LogMessageFrame, BufferedLogFrame(method)>>
                           \o stack),
                1, hs)

\* the call site logMessage resolves, stack being the callers of Log/Logf
resolveSite(method, stack, hs) ==
    ResolveFrom(Callers(CallersSkip,
                        <<LogMessageFrame, BufferedLogFrame(method)>> \o stack),
                1, hs)

\* ------------------------------------------------------------------------
\* loggerT: ReplaceLogger, ExtraDetailLogger and the transforms of the tests
\* ------------------------------------------------------------------------
LayerKinds == {"extra", "replace3", "replaceNoHelper"}

ExtraLayer(prefix) == [kind |-> "extra", prefix |-> prefix]
ReplaceLayer(kind) == [kind |-> kind, prefix |-> ""]

\* frame of loggerT.Log / Logf calling t.logger(message)
LoggerTFrame(method) ==
    IF method = "Log"
    THEN Frame("loggerT.Log", LoggerGo, 45)
    ELSE Frame("loggerT.Logf", LoggerGo, 52)

\* mutant: the transform of ExtraDetailLogger puts the message first
TransformAppendsPrefix(layer, s) ==
    CASE layer.kind = "extra" ->
           [frames |-> <<Frame("ExtraDetailLogger.func1", LoggerGo, 71)>>,
            marks |-> <<"ExtraDetailLogger.func1">>,
            call |-> LogfCall(<<"%s", " ", "%s", " ", "%s">>,
                              <<s, TimeStamp, <<layer.prefix>>>>)]
      [] layer.kind = "replace3" ->
           [frames |-> <<Frame("TestFn.func2.1.1", TestGo, 144),
                         Frame("TestFn.func2.1", TestGo, 145),
                         Frame("TestFn.func2", TestGo, 146)>>,
            marks |-> <<"TestFn.func2", "TestFn.func2.1", "TestFn.func2.1.1">>,
            call |-> LogCall(<<s \o <<" SUFFIX">>>>)]
      [] layer.kind = "replaceNoHelper" ->
           [frames |-> <<Frame("TestFn.func3", TestGo, 198)>>,
            marks |-> <<>>,
            call |-> LogCall(<<s \o <<" REPLACED">>>>)]

\* The transform of a layer applied to message s: the frames it has on the
\* stack when it calls the inner handle (innermost first), the functions
\* that called Helper() on the way, and the call it makes on the inner handle
Transform(layer, s) ==
    CASE layer.kind = "extra" ->
           [frames |-> <<Frame("ExtraDetailLogger.func1", LoggerGo, 71)>>,
            marks |-> <<"ExtraDetailLogger.func1">>,
            call |-> LogfCall(<<"%s", " ", "%s", " ", "%s">>,
                              <<<<layer.prefix>>, TimeStamp, s>>)]
      [] layer.kind = "replace3" ->
           [frames |-> <<Frame("TestFn.func2.1.1", TestGo, 144),
                         Frame("TestFn.func2.1", TestGo, 145),
                         Frame("TestFn.func2", TestGo, 146)>>,
            marks |-> <<"TestFn.func2", "TestFn.func2.1", "TestFn.func2.1.1">>,
            call |-> LogCall(<<s \o <<" SUFFIX">>>>)]
      [] layer.kind = "replaceNoHelper" ->
           [frames |-> <<Frame("TestFn.func3", TestGo, 198)>>,
            marks |-> <<>>,
            call |-> LogCall(<<s \o <<" REPLACED">>>>)]

RECURSIVE markAll(_, _)
markAll(reg, fns) ==
    IF fns = <<>> THEN reg ELSE markAll(markHelper(reg, Head(fns)), Tail(fns))

\* Helper() called by function fn on a handle of the chain: loggerT promotes
\* it to the handle it wraps, bufferedLoggerT.Helper marks its caller, the
\* test handle's Helper does not touch the registry
Helper(tracking, reg, fn) == IF tracking THEN markHelper(reg, fn) ELSE reg

\* mutant: loggerT.Log / Logf do not mark themselves
loggerTNoHelper(tracking, reg, fn) == reg

\* t.T.Helper() at the head of loggerT.Log / Logf
loggerTHelper(tracking, reg, fn) == Helper(tracking, reg, fn)

\* loggerT.Log / Logf of layer k (layers[1] wraps the base handle), then the
\* transform, then the call on the next handle, down to the base handle
RECURSIVE Descend(_, _, _, _, _, _)
Descend(ls, k, call, stack, reg, tracking) ==
    IF k = 0 THEN [call |-> call, stack |-> stack, reg |-> reg]
    ELSE LET fr == LoggerTFrame(call.method)
             reg1 == loggerTHelper(tracking, reg, fr.fn)
             tr == Transform(ls[k], FormatCall(call))
             reg2 == IF tracking THEN markAll(reg1, tr.marks) ELSE reg1
         IN Descend(ls, k - 1, tr.call, tr.frames \o <<fr>> \o stack,
                    reg2, tracking)


\* ------------------------------------------------------------------------
\* State
\* ------------------------------------------------------------------------
VARIABLES
    env,            \* value of NTEST_BUFFERING
    hasDeadline,    \* the test handle exposes a deadline
    handle,         \* what BufferedLogger(t) returned: "none" before the call
    layers,         \* loggerT layers wrapped over handle, layers[1] innermost
    failed,         \* the test handle: Failed()
    skipped,        \* the test handle: Skipped()
    cleanups,       \* the test handle: callbacks registered and not yet run
    captured,       \* the test handle: the Log / Logf calls it received
    entries,        \* bufferedLoggerT.entries
    cleanupCalled,  \* bufferedLoggerT.cleanupCalled
    registry,       \* bufferedLoggerT.helpers and bufferedLoggerT.seen
    armed,          \* the deadline watchdog is waiting
    calls,          \* history: the Log / Logf calls of the test, in order
    ran,            \* history: state of the test when the cleanup ran
    fired,          \* history: number of calls made when the watchdog fired
    chain,          \* Run / Parallel: the handle t of the parent test
    tests,          \* Run / Parallel: the native test handles, by test
    buffers,        \* Run / Parallel: the bufferedLoggerT instances, by id
    capturedLogs,   \* Run / Parallel: what the capturing transform collected
    phase,          \* Run / Parallel: where the parent test stands
    subHandle,      \* Run: the handle f was invoked with
    runResult,      \* Run: what Run returned
    spawned,        \* history: subtests started on the native handle
    fcalls,         \* history: the handles f was invoked with
    parCalls,       \* history: the handles Parallel() was called on
    rcalls,         \* history: the Log calls of the parent test and of f
    hcalls,         \* history: the Helper() calls of the parent test
    ctx,            \* AutoCancel: the contexts
    once,           \* AutoCancel: the sync.Once of onceFunc
    ctxCleanups,    \* AutoCancel: callbacks registered on the test handle
    ctxTrace,       \* history: what the test of AutoCancel has done
    ctxPhase,       \* AutoCancel: where the test stands
    mT,             \* RunMatrix: the type of the handle it is called with
    mParallel,      \* RunMatrix: called as RunParallelMatrix
    mChain,         \* RunMatrix: the chain it is called with
    mPhase,         \* RunMatrix: not yet called, running, returned
    mTasks,         \* RunMatrix: the startTest loops and subtest bodies
    mSpawned,       \* history: the bag of the names of the subtests started
    mRuns,          \* history: the bag of the RunTest calls made
    mFailed,        \* RunMatrix: the handle has been failed
    mLog,           \* RunMatrix: what was logged on the handle
    entryLock,      \* goroutines: who holds entryLock ("free" for nobody)
    pc,             \* goroutines: where each of them stands
    done,           \* goroutines: the Log calls each has returned from
    order,          \* history: the order in which entryLock was taken
    seen,           \* history: the entries the cleanup callback has read
    mu,             \* goroutines: bufferedLoggerT.mu, its writer and readers
    op,             \* goroutines: the method each of them is in
    helped,         \* goroutines: the Helper calls each has returned from
    frameAt,        \* goroutines: the frame the loop of logMessage is at
    rDepth,         \* resolver: how deep the helper of the test has recursed
    rReg,           \* resolver: the helper registry of the bufferedLoggerT
    rSite,          \* resolver: the last call site resolved, with its inputs
    sHandles,       \* static skip: the handles built over one BufferedLogger
    skipFrames,     \* static skip: the skipFrames of the buffering LoggerT
    sEntries        \* static skip: the entries recorded, with the user's line

runVars == <<chain, tests, buffers, capturedLogs, phase, subHandle, runResult,
             spawned, fcalls, parCalls, rcalls, hcalls>>
ctxVars == <<ctx, once, ctxCleanups, ctxTrace, ctxPhase>>
matrixVars == <<mT, mParallel, mChain, mPhase, mTasks, mSpawned, mRuns,
                mFailed, mLog>>

muVars == <<mu, op, helped, frameAt>>
lockVars == <<entryLock, pc, done, order, seen, muVars>>

\* the variables of the specifications that follow RunSpec and CancelSpec
resolverVars == <<rDepth, rReg, rSite>>
skipVars == <<sHandles, skipFrames, sEntries>>
laterVars == <<matrixVars, lockVars, resolverVars, skipVars>>

\* what the logger wrappers alone leave as it is
restVars == <<runVars, ctxVars, laterVars>>

vars == <<env, hasDeadline, handle, layers, failed, skipped, cleanups,
          captured, entries, cleanupCalled, registry, armed, calls, ran, fired,
          runVars, ctxVars, laterVars>>

\* the state of the logger wrappers over one handle, without the switch
wrapVars == <<hasDeadline, handle, layers, failed, skipped, cleanups,
              captured, entries, cleanupCalled, registry, armed, calls, ran,
              fired>>

testVars == <<failed, skipped>>
blVars == <<entries, cleanupCalled, registry>>

\* what RunMatrix leaves as it is
matrixFrame == <<env, wrapVars, runVars, ctxVars, lockVars, resolverVars,
                skipVars>>

\* what the goroutines that log on one bufferedLoggerT leave as it is
lockFrame == <<env, hasDeadline, handle, layers, skipped, armed,
               calls, ran, fired, runVars, ctxVars, matrixVars, resolverVars,
               skipVars>>

\* what a Log call under a deep stack leaves as it is
resolverFrame == <<env, wrapVars, runVars, ctxVars, matrixVars, lockVars,
                  skipVars>>

\* what the handles of the static skip-frame scheme leave as it is
skipFrame == <<env, wrapVars, runVars, ctxVars, matrixVars, lockVars,
               resolverVars>>

MockT == "mockedT"
Wrapped == "bufferedLoggerT"

\* the base handle keeps a helper registry
Tracking == handle = Wrapped

\* ------------------------------------------------------------------------
\* The test handle (mockedT of the tests): Log, Logf
\* ------------------------------------------------------------------------
InnerLog(cap, args) ==
    Append(cap, [method |-> "Log", text |-> StripLast(Sprintln(args))])

InnerLogf(cap, format, args) ==
    Append(cap, [method |-> "Logf", text |-> Sprintf(format, args)])

InnerCall(cap, call) ==
    IF call.method = "Log" THEN InnerLog(cap, call.args)
    ELSE InnerLogf(cap, call.format, call.args)

\* ------------------------------------------------------------------------
\* BufferedLogger
\* ------------------------------------------------------------------------
\* mutant: the switch is compared with another literal
BufferingDisabledWrongLiteral(v) == v = "0"

\* os.Getenv("NTEST_BUFFERING") == "false"
BufferingDisabled(v) == v = "false"

HeaderLine == <<"=== Buffered Log Output (test failed) ===", "\n">>
FooterLine == <<"=== End Buffered Log Output ===", "\n">>

\* fmt.Fprintf(&buffer, "%s:%d %s\n", entry.file, entry.line, entry.message)
EntryLine(e) ==
    Sprintf(<<"%s", ":", "%d", " ", "%s", "\n">>, <<e.file, e.line, e.message>>)

RECURSIVE EntryLines(_)
EntryLines(es) ==
    IF es = <<>> THEN <<>> ELSE EntryLine(Head(es)) \o EntryLines(Tail(es))

BlockText(es) == HeaderLine \o EntryLines(es) \o FooterLine

\* mutants of the condition of the flush: the state of the test is not
\* looked at; a skipped test is not flushed; an empty buffer is flushed
ShouldFlushAnyState(f, s, es) == Len(es) > 0
ShouldFlushFailedOnly(f, s, es) == f /\ Len(es) > 0
ShouldFlushEmpty(f, s, es) == f \/ s

\* (t.Failed() || t.Skipped()) && len(wrapped.entries) > 0
ShouldFlush(f, s, es) == (f \/ s) /\ Len(es) > 0

\* mutant: the header, every entry and the footer go out in calls of their own
RECURSIVE LogEach(_, _)
LogEach(cap, es) ==
    IF es = <<>> THEN cap
    ELSE LogEach(InnerLog(cap, <<EntryLine(Head(es))>>), Tail(es))

FlushOutputPerEntry(cap, f, s, es) ==
    IF ShouldFlush(f, s, es)
    THEN InnerLog(LogEach(InnerLog(cap, <<HeaderLine>>), es), <<FooterLine>>)
    ELSE InnerLogf(cap, <<"dropping ", "%d", " log entries (test passed)">>,
                   <<Len(es)>>)

\* mutant: with nothing buffered the callback says nothing
FlushOutputQuietWhenEmpty(cap, f, s, es) ==
    IF ShouldFlush(f, s, es)
    THEN InnerLog(cap, <<BlockText(es)>>)
    ELSE IF es = <<>> THEN cap
    ELSE InnerLogf(cap, <<"dropping ", "%d", " log entries (test passed)">>,
                   <<Len(es)>>)

\* what the cleanup callback sends to the test handle
FlushOutput(cap, f, s, es) ==
    IF ShouldFlush(f, s, es)
    THEN InnerLog(cap, <<BlockText(es)>>)
    ELSE InnerLogf(cap, <<"dropping ", "%d", " log entries (test passed)">>,
                   <<Len(es)>>)

\* BufferedLogger(t)
BufferedLogger ==
    /\ handle = "none"
    /\ IF BufferingDisabled(env)
       THEN /\ handle' = MockT
            /\ UNCHANGED <<cleanups, armed>>
       ELSE /\ handle' = Wrapped
            /\ cleanups' = Append(cleanups, "flush")
            /\ armed' = hasDeadline
    /\ UNCHANGED <<env, hasDeadline, layers, testVars, captured, blVars,
                   calls, ran, fired,
                   restVars>>

\* the callback registered by BufferedLogger, run by the test handle
CleanupCallback ==
    /\ cleanups # <<>>
    /\ cleanups' = SubSeq(cleanups, 1, Len(cleanups) - 1)
    /\ cleanupCalled' = TRUE
    /\ captured' = FlushOutput(captured, failed, skipped, entries)
    /\ ran' = IF failed THEN "failed" ELSE IF skipped THEN "skipped"
                                          ELSE "passed"
    /\ UNCHANGED <<env, hasDeadline, handle, layers, testVars, entries,
                   registry, armed, calls, fired,
                   restVars>>

\* ------------------------------------------------------------------------
\* Log / Logf on the base handle
\* ------------------------------------------------------------------------
\* mutants: logMessage buffers, or emits, whatever cleanupCalled says
EmitNowNever(cc) == FALSE
EmitNowAlways(cc) == TRUE

\* logMessage under entryLock: emit at once after cleanup, else buffer
EmitNow(cc) == cc

\* mutant: the entry is put in front of the buffer
PrependEntry(es, e) == <<e>> \o es

\* bl.entries = append(bl.entries, entry)
AppendEntry(es, e) == Append(es, e)

\* bufferedLoggerT.Log / Logf and logMessage; the result is the new
\* registry, entries and captured
BufferedLog(call, stack, reg, es, cap, cc) ==
    LET reg1 == markHelper(reg, BufferedLogFrame(call.method).fn)
        message == FormatCall(call)
        site == resolveSite(call.method, stack, reg1.helpers)
        entry == [message |-> message, file |-> site.file, line |-> site.line]
    IN IF EmitNow(cc)
       THEN [reg |-> reg1, es |-> es,
             cap |-> InnerLogf(cap, <<"[", "%s", ":", "%d", "]", " ", "%s">>,
                               <<site.file, site.line, message>>)]
       ELSE [reg |-> reg1, es |-> AppendEntry(es, entry), cap |-> cap]

\* ------------------------------------------------------------------------
\* The test: wrapping, logging, failing, skipping
\* ------------------------------------------------------------------------
Prefix(k) == <<"PREFIX1", "PREFIX2", "PREFIX3", "PREFIX4">>[k]

\* ExtraDetailLogger(t, prefix) over the outermost handle (the test builds
\* its chain of handles before it logs)
WrapExtraDetail ==
    /\ handle # "none"
    /\ calls = <<>>
    /\ Len(layers) < MaxLayers
    /\ layers' = Append(layers, ExtraLayer(Prefix(Len(layers) + 1)))
    /\ UNCHANGED <<env, hasDeadline, handle, testVars, cleanups, captured,
                   blVars, armed, calls, ran, fired,
                   restVars>>

\* ReplaceLogger(t, transform) over the outermost handle
WrapReplace ==
    /\ handle # "none"
    /\ calls = <<>>
    /\ Len(layers) < MaxLayers
    /\ \E kind \in LayerKinds \ {"extra"} :
          layers' = Append(layers, ReplaceLayer(kind))
    /\ UNCHANGED <<env, hasDeadline, handle, testVars, cleanups, captured,
                   blVars, armed, calls, ran, fired,
                   restVars>>

\* every layer a call at this level goes through marks its transform
RECURSIVE AllMarking(_, _)
AllMarking(ls, k) ==
    k = 0 \/ (ls[k].kind # "replaceNoHelper" /\ AllMarking(ls, k - 1))

UserMsg(k) == <<MsgTok[k]>>

UserCall(method, k) ==
    IF method = "Log" THEN LogCall(<<UserMsg(k)>>)
    ELSE LogfCall(<<"got ", "%s">>, <<UserMsg(k)>>)

\* A statement of the test calls Log or Logf on the handle at some level of
\* the chain (0 is the handle BufferedLogger returned), from the test
\* function or from a helper function that first calls Helper() on it; the
\* test calls either the outermost handle or the one BufferedLogger returned
UserLog ==
    /\ handle # "none"
    /\ Len(calls) < MaxCalls
    /\ \E level \in {0, Len(layers)}, kind \in UserCallKinds :
          LET id == Len(calls) + 1
              method == kind[1]
              caller == kind[2]
              l == UserLine(id)
              reg0 == IF caller = "helper"
                      THEN Helper(Tracking, registry, UserHelperFrame.fn)
                      ELSE registry
              d == Descend(layers, level, UserCall(method, id),
                           UserStack(caller, l), reg0, Tracking)
              r == BufferedLog(d.call, d.stack, d.reg, entries, captured,
                               cleanupCalled)
          IN /\ IF Tracking
                THEN /\ registry' = r.reg
                     /\ entries' = r.es
                     /\ captured' = r.cap
                ELSE /\ captured' = InnerCall(captured, d.call)
                     /\ UNCHANGED <<registry, entries>>
             /\ calls' = Append(calls,
                   [id |-> id, level |-> level, method |-> method,
                    caller |-> caller,
                    stmtLine |-> IF caller = "helper"
                                 THEN UserHelperFrame.line ELSE l,
                    siteLine |-> l,
                    marking |-> AllMarking(layers, level),
                    before |-> (ran = "no" /\ fired = -1)])
    /\ UNCHANGED <<env, hasDeadline, handle, layers, testVars, cleanups,
                   cleanupCalled, armed, ran, fired,
                   restVars>>

\* mutant: a failure after the cleanup callback flushes what was dropped
FailFlushesLate ==
    /\ handle # "none"
    /\ ~failed
    /\ failed' = TRUE
    /\ captured' = IF cleanupCalled /\ entries # <<>>
                   THEN InnerLog(captured, <<BlockText(entries)>>)
                   ELSE captured
    /\ UNCHANGED <<env, hasDeadline, handle, layers, skipped, cleanups,
                   blVars, armed, calls, ran, fired,
                   restVars>>

\* t.Fail / FailNow / Error... on the test handle
Fail ==
    /\ handle # "none"
    /\ ~failed
    /\ failed' = TRUE
    /\ UNCHANGED <<env, hasDeadline, handle, layers, skipped, cleanups,
                   captured, blVars, armed, calls, ran, fired,
                   restVars>>

\* t.Skip / Skipf on the test handle
Skip ==
    /\ handle # "none"
    /\ ~skipped
    /\ skipped' = TRUE
    /\ UNCHANGED <<env, hasDeadline, handle, layers, failed, cleanups,
                   captured, blVars, armed, calls, ran, fired,
                   restVars>>

\* ------------------------------------------------------------------------
\* Specification: a test handle without deadline (mockedT)
\* ------------------------------------------------------------------------
\* Run, Parallel and AutoCancel are not called by the tests of the wrappers
RunIdle ==
    /\ chain = <<>>
    /\ tests = <<>>
    /\ buffers = <<>>
    /\ capturedLogs = <<>>
    /\ phase = "idle"
    /\ subHandle = <<>>
    /\ runResult = "none"
    /\ spawned = 0
    /\ fcalls = <<>>
    /\ parCalls = <<>>
    /\ rcalls = <<>>
    /\ hcalls = <<>>

CtxIdle ==
    /\ ctx = <<>>
    /\ once = <<>>
    /\ ctxCleanups = <<>>
    /\ ctxTrace = <<>>
    /\ ctxPhase = "idle"

MatrixIdle ==
    /\ mT = "none"
    /\ mParallel = FALSE
    /\ mChain = <<>>
    /\ mPhase = "idle"
    /\ mTasks = {}
    /\ mSpawned = EmptyBag
    /\ mRuns = EmptyBag
    /\ mFailed = FALSE
    /\ mLog = <<>>

LockIdle ==
    /\ entryLock = "free"
    /\ pc = <<>>
    /\ done = <<>>
    /\ order = <<>>
    /\ seen = <<>>
    /\ mu = [writer |-> "free", readers |-> {}]
    /\ op = <<>>
    /\ helped = <<>>
    /\ frameAt = <<>>

ResolverIdle ==
    /\ rDepth = 0
    /\ rReg = <<>>
    /\ rSite = <<>>

SkipIdle ==
    /\ sHandles = <<>>
    /\ skipFrames = 0
    /\ sEntries = <<>>

LaterIdle == MatrixIdle /\ LockIdle /\ ResolverIdle /\ SkipIdle

InitCommon ==
    /\ RunIdle
    /\ CtxIdle
    /\ LaterIdle
    /\ env \in EnvValues
    /\ handle = "none"
    /\ layers = <<>>
    /\ failed = FALSE
    /\ skipped = FALSE
    /\ cleanups = <<>>
    /\ captured = <<>>
    /\ entries = <<>>
    /\ cleanupCalled = FALSE
    /\ registry = [helpers |-> {}, seen |-> {}]
    /\ armed = FALSE
    /\ calls = <<>>
    /\ ran = "no"
    /\ fired = -1

Init == InitCommon /\ hasDeadline = FALSE

Next ==
    \/ BufferedLogger
    \/ WrapExtraDetail
    \/ WrapReplace
    \/ UserLog
    \/ Fail
    \/ Skip
    \/ CleanupCallback

Spec == Init /\ [][Next]_vars


\* ------------------------------------------------------------------------
\* Specification: a test handle with a deadline (*testing.T under -timeout)
\* ------------------------------------------------------------------------
\* mutant: the watchdog flushes only what a cleanup would flush
WatchdogFailedAsTest(f) == f

\* The watchdog treats the test as failed, whatever Failed() says
WatchdogFailed(f) == TRUE

\* The watchdog armed by BufferedLogger fires before the cleanup has run: it
\* flushes as for a failed test and the buffer is cleared by the flush
WatchdogFire ==
    /\ armed
    /\ ~cleanupCalled
    /\ armed' = FALSE
    /\ cleanupCalled' = TRUE
    /\ captured' = FlushOutput(captured, WatchdogFailed(failed), skipped,
                               entries)
    /\ entries' = <<>>
    /\ fired' = Len(calls)
    /\ UNCHANGED <<env, hasDeadline, handle, layers, testVars, cleanups,
                   registry, calls, ran,
                   restVars>>

InitDeadline == InitCommon /\ hasDeadline = TRUE

\* the test of the deadline logs on the handle BufferedLogger returned
NextDeadline ==
    \/ BufferedLogger
    \/ UserLog
    \/ Fail
    \/ Skip
    \/ CleanupCallback
    \/ WatchdogFire

WatchdogSpec == InitDeadline /\ [][NextDeadline]_vars


\* ------------------------------------------------------------------------
\* Handles as Run and Parallel see them (t.go)
\* ------------------------------------------------------------------------
\* A handle is the sequence of its nodes, outermost first; its last node is
\* the native handle and Unwrap is Tail.  The type of a node is what %T
\* prints for it.
TestingT == "*testing.T"
TestingB == "*testing.B"
\* a handle with the methods of T only (the mock of test_test.go)
PlainT == "*ntest_test.mockedT"
LoggerT == "*ntest.loggerT"
BufferedT == "*ntest.bufferedLoggerT"
\* decorators of the caller without ReWrap: a struct that embeds the
\* interface T, and a struct that embeds *testing.T (its Run and Parallel
\* are those of *testing.T)
EmbedsT == "*decorator{ntest.T}"
EmbedsTestingT == "*decorator{*testing.T}"

NativeTypes == {TestingT, TestingB, PlainT}

NoLogger == [kind |-> "none", prefix |-> "", target |-> <<>>]
Node(type, id, logger) == [type |-> type, id |-> id, logger |-> logger]
NodeId(test, depth) == [test |-> test, depth |-> depth]

\* mutant: only *testing.T itself is taken for a runner
IsRunnerNativeOnly(n) == n.type = TestingT

\* the interfaces of the type switches
IsRunner(n) == n.type \in {TestingT, EmbedsTestingT}
IsRunnerB(n) == n.type = TestingB
IsParallel(n) == n.type \in {TestingT, EmbedsTestingT}
IsReWrapper(n) == n.type \in {LoggerT, BufferedT}

\* the test whose native handle is under h, and %T of h
TestOf(h) == h[Len(h)].id.test
TypeOf(h) == <<h[1].type>>

\* a native handle that has not logged yet
NewTest == [started |-> TRUE, failed |-> FALSE, skipped |-> FALSE,
            out |-> <<>>, cleanups |-> <<>>]
NoTest == [started |-> FALSE, failed |-> FALSE, skipped |-> FALSE,
           out |-> <<>>, cleanups |-> <<>>]

\* buffers, tests and capturedLogs as the operators below pass them on
World(b, t, c) == [b |-> b, t |-> t, c |-> c]

\* mutant: Fail() is not called
FailTestForgotten(w, nm) == w

\* (*testing.common).Fail: a failing subtest fails its parent
FailTest(w, nm) ==
    [w EXCEPT !.t = [x \in DOMAIN w.t |->
                       IF x = nm \/ (nm = "sub" /\ x = "parent")
                       THEN [w.t[x] EXCEPT !.failed = TRUE] ELSE w.t[x]]]

\* Helper() called by function fn on handle h: loggerT and the decorators
\* promote it to the handle they embed, bufferedLoggerT.Helper marks fn in
\* its own registry (no handle below has a FlexHelper method for
\* MarkHelpers to call), a native handle keeps no registry
RECURSIVE HelperOn(_, _, _)
HelperOn(h, fn, b) ==
    IF h[1].type = BufferedT
    THEN [b EXCEPT ![h[1].id].reg = markHelper(@, fn)]
    ELSE IF Len(h) = 1 THEN b
    ELSE HelperOn(Tail(h), fn, b)

\* bl.T.Logf("[%s:%d] %s", file, line, message)
EmitCall(site, message) ==
    LogfCall(<<"[", "%s", ":", "%d", "]", " ", "%s">>,
             <<site.file, site.line, message>>)

\* Log / Logf called on handle h with the callers' frames in stack
RECURSIVE Deliver(_, _, _, _)
Deliver(h, call, stack, w) ==
    LET n == h[1]
    IN CASE n.type = LoggerT ->
              LET fr == LoggerTFrame(call.method)
                  b1 == HelperOn(Tail(h), fr.fn, w.b)
                  message == FormatCall(call)
              IN IF n.logger.kind = "capture"
                 THEN [w EXCEPT !.b = b1, !.c = Append(@, message)]
                 ELSE LET tr == Transform(ExtraLayer(n.logger.prefix),
                                          message)
                          b2 == HelperOn(n.logger.target, tr.marks[1], b1)
                      IN Deliver(n.logger.target, tr.call,
                                 tr.frames \o <<fr>> \o stack,
                                 [w EXCEPT !.b = b2])
         [] n.type = BufferedT ->
              LET bl == w.b[n.id]
                  fr == BufferedLogFrame(call.method)
                  reg1 == markHelper(bl.reg, fr.fn)
                  message == FormatCall(call)
                  site == resolveSite(call.method, stack, reg1.helpers)
                  w1 == [w EXCEPT !.b[n.id].reg = reg1]
              IN IF EmitNow(bl.cleanupCalled)
                 THEN Deliver(Tail(h), EmitCall(site, message),
                              <<LogMessageFrame, fr>> \o stack,
                              [w1 EXCEPT !.b = HelperOn(Tail(h),
                                                        LogMessageFrame.fn, @)])
                 ELSE [w1 EXCEPT !.b[n.id].entries =
                          AppendEntry(@, [message |-> message,
                                          file |-> site.file,
                                          line |-> site.line])]
         [] n.type \in {EmbedsT, EmbedsTestingT} ->
              Deliver(Tail(h), call, stack, w)
         [] OTHER ->
              [w EXCEPT !.t[n.id.test].out = InnerCall(@, call)]

\* BufferedLogger(h) with NTEST_BUFFERING = e; id names the new instance
NewBuffered(h, e, id, w) ==
    IF BufferingDisabled(e) THEN [h |-> h, w |-> w]
    ELSE [h |-> <<Node(BufferedT, id, NoLogger)>> \o h,
          w |-> [w EXCEPT
                   !.b = (id :> [entries |-> <<>>, cleanupCalled |-> FALSE,
                                 reg |-> [helpers |-> {}, seen |-> {}],
                                 inner |-> h]) @@ @,
                   !.t[TestOf(h)].cleanups = Append(@, id)]]

\* mutant: the callback drops the entries whatever the test has come to
FlushCallAlwaysDrops(f, s, es) ==
    LogfCall(<<"dropping ", "%d", " log entries (test passed)">>, <<Len(es)>>)

\* what the cleanup callback of BufferedLogger logs on the handle it wraps
FlushCall(f, s, es) ==
    IF ShouldFlush(f, s, es) THEN LogCall(<<BlockText(es)>>)
    ELSE LogfCall(<<"dropping ", "%d", " log entries (test passed)">>,
                  <<Len(es)>>)

CleanupStack ==
    <<Frame("BufferedLogger.func1", LoggerGo, 134),
      Frame("testing.(*common).runCleanup", TestingGo, 1211)>> \o RunnerFrames

\* the native handle of test nm runs its cleanup callbacks, last one first
RECURSIVE RunCleanups(_, _, _)
RunCleanups(ids, nm, w) ==
    IF ids = <<>> THEN w
    ELSE LET id == ids[Len(ids)]
             bl == w.b[id]
             w1 == [w EXCEPT !.b[id].cleanupCalled = TRUE]
             w2 == Deliver(bl.inner,
                           FlushCall(w.t[nm].failed, w.t[nm].skipped,
                                     bl.entries),
                           CleanupStack, w1)
         IN RunCleanups(SubSeq(ids, 1, Len(ids) - 1), nm, w2)

\* loggerT.ReWrap / bufferedLoggerT.ReWrap of node n around newT
ReWrapNode(n, newT, e, w) ==
    LET id == NodeId(TestOf(newT), Len(newT))
    IN IF n.type = LoggerT
       THEN [h |-> <<Node(LoggerT, id, n.logger)>> \o newT, w |-> w]
       ELSE NewBuffered(newT, e, id, w)

\* ------------------------------------------------------------------------
\* Run, Parallel, MustParallel (t.go)
\* ------------------------------------------------------------------------
TGo == <<"ntest", "t.go">>

\* the statement of the parent test that calls Run / Parallel / MustParallel
CallerStack(fn, line) ==
    <<Frame(fn, TGo, line), TestFrame(UserLine(0))>> \o RunnerFrames

\* the loop of Run: the ReWrapper nodes passed on the way down, in the
\* order they were passed, and the node the loop stopped at
RECURSIVE RunWalk(_, _)
RunWalk(h, ws) ==
    IF IsRunner(h[1]) \/ IsRunnerB(h[1])
    THEN [ok |-> TRUE, wraps |-> ws, at |-> h[1]]
    ELSE IF IsReWrapper(h[1])
         THEN RunWalk(Tail(h), Append(ws, h[1]))
    ELSE [ok |-> FALSE, wraps |-> ws, at |-> h[1]]

\* mutant: the layers are re-applied outermost first
RECURSIVE ApplyReWrapOutermostFirst(_, _, _, _)
ApplyReWrapOutermostFirst(ws, t, e, w) ==
    IF ws = <<>> THEN [h |-> t, w |-> w]
    ELSE LET r == ReWrapNode(Head(ws), t, e, w)
         IN ApplyReWrapOutermostFirst(Tail(ws), r.h, e, r.w)

\* reWrap as the loop has composed it: every pass makes
\* reWrap = func(t) { return oldWrap(tt.ReWrap(t)) }
RECURSIVE ApplyReWrap(_, _, _, _)
ApplyReWrap(ws, t, e, w) ==
    IF ws = <<>> THEN [h |-> t, w |-> w]
    ELSE LET r == ReWrapNode(ws[Len(ws)], t, e, w)
         IN ApplyReWrap(SubSeq(ws, 1, Len(ws) - 1), r.h, e, r.w)

\* mutant: only t itself is asked for Parallel
callParallelNoUnwrap(h, k) ==
    IF IsParallel(h[1]) THEN k ELSE 0

\* callParallel: the position in the chain (1 is t itself) of the handle
\* Parallel() is called on, 0 when the loop finds none
RECURSIVE callParallel(_, _)
callParallel(h, k) ==
    IF IsParallel(h[1]) THEN k
    ELSE IF IsReWrapper(h[1]) THEN callParallel(Tail(h), k + 1)
    ELSE 0

\* the world of the Run / Parallel tests, read and written
Now == World(buffers, tests, capturedLogs)
Becomes(w) ==
    /\ buffers' = w.b
    /\ tests' = w.t
    /\ capturedLogs' = w.c

Building == phase = "parent" /\ rcalls = <<>> /\ parCalls = <<>>

\* ExtraDetailLogger(t, prefix): the transform keeps t, the handle it was
\* given
ChainExtraDetailLogger ==
    /\ Building
    /\ Len(chain) <= MaxLayers
    /\ chain' = <<Node(LoggerT, NodeId("parent", Len(chain)),
                       [kind |-> "extra", prefix |-> Prefix(Len(chain)),
                        target |-> chain])>> \o chain
    /\ UNCHANGED <<env, wrapVars, ctxVars, laterVars, hcalls, tests, buffers, capturedLogs,
                   phase, subHandle, runResult, spawned, fcalls, parCalls,
                   rcalls>>

\* ReplaceLogger(t, func(s) { capturedLogs = append(capturedLogs, s) })
ChainReplaceLogger ==
    /\ Building
    /\ Len(chain) <= MaxLayers
    /\ chain' = <<Node(LoggerT, NodeId("parent", Len(chain)),
                       [kind |-> "capture", prefix |-> "",
                        target |-> <<>>])>> \o chain
    /\ UNCHANGED <<env, wrapVars, ctxVars, laterVars, hcalls, tests, buffers, capturedLogs,
                   phase, subHandle, runResult, spawned, fcalls, parCalls,
                   rcalls>>

\* BufferedLogger(t)
ChainBufferedLogger ==
    /\ Building
    /\ Len(chain) <= MaxLayers
    /\ LET r == NewBuffered(chain, env, NodeId("parent", Len(chain)), Now)
       IN /\ chain' = r.h
          /\ Becomes(r.w)
    /\ UNCHANGED <<env, wrapVars, ctxVars, laterVars, hcalls, phase, subHandle, runResult,
                   spawned, fcalls, parCalls, rcalls>>

\* a decorator of the caller around t; one that embeds *testing.T is
\* built on the native handle
ChainDecorate ==
    /\ Building
    /\ Len(chain) <= MaxLayers
    /\ \E type \in {EmbedsT, EmbedsTestingT} :
          /\ type = EmbedsTestingT => (Len(chain) = 1 /\ chain[1].type = TestingT)
          /\ chain' = <<Node(type, NodeId("parent", Len(chain)), NoLogger)>>
                      \o chain
    /\ UNCHANGED <<env, wrapVars, ctxVars, laterVars, hcalls, tests, buffers, capturedLogs,
                   phase, subHandle, runResult, spawned, fcalls, parCalls,
                   rcalls>>

\* t.Setenv("NTEST_BUFFERING", v) in the parent test
Setenv ==
    /\ phase = "parent"
    /\ \E v \in EnvValues \ {env} : env' = v
    /\ UNCHANGED <<wrapVars, runVars, ctxVars, laterVars>>

\* Run(t, name, f) up to the moment f is entered, or to its return when
\* the chain does not lead to a handle with Run
Run ==
    /\ phase = "parent"
    /\ LET walk == RunWalk(chain, <<>>)
       IN IF walk.ok
          THEN LET subT == <<Node(IF IsRunnerB(walk.at) THEN TestingB
                                  ELSE TestingT,
                                  NodeId("sub", 0), NoLogger)>>
                   r == ApplyReWrap(walk.wraps, subT, env,
                                    [Now EXCEPT !.t["sub"] = NewTest])
               IN /\ Becomes(r.w)
                  /\ spawned' = spawned + 1
                  /\ subHandle' = r.h
                  /\ fcalls' = Append(fcalls, r.h)
                  /\ runResult' = "running"
                  /\ phase' = "body"
          ELSE /\ Becomes(FailTest(
                     Deliver(chain,
                             LogfCall(<<"Run not supported by ", "%s">>,
                                      <<TypeOf(chain)>>),
                             CallerStack("ntest.Run", 131), Now),
                     "parent"))
               /\ runResult' = "false"
               /\ phase' = "after"
               /\ UNCHANGED <<spawned, subHandle, fcalls>>
    /\ UNCHANGED <<env, wrapVars, ctxVars, laterVars, hcalls, chain, parCalls, rcalls>>

\* the k-th logging statement of the test: Log with two operands or Logf
RunCall(method, k) ==
    IF method = "Log" THEN LogCall(<<UserMsg(k), <<"3">>>>)
    ELSE LogfCall(<<"formatted '", "%s", "'">>, <<UserMsg(k)>>)

\* a statement of the parent test, or of f, logs on the handle it holds
RunLog ==
    /\ phase \in {"parent", "body", "after"}
    /\ Len(rcalls) < MaxCalls
    /\ \E method \in {"Log", "Logf"} :
          LET id == Len(rcalls) + 1
              h == IF phase = "body" THEN subHandle ELSE chain
          IN /\ Becomes(Deliver(h, RunCall(method, id),
                                UserStack("direct", UserLine(id)), Now))
             /\ rcalls' = Append(rcalls, [id |-> id, method |-> method,
                                          in |-> TestOf(h), on |-> h])
    /\ UNCHANGED <<env, wrapVars, ctxVars, laterVars, hcalls, chain, phase, subHandle,
                   runResult, spawned, fcalls, parCalls>>

\* t.Fail() in the parent test or in f
RunFail ==
    /\ phase \in {"parent", "body", "after"}
    /\ LET nm == IF phase = "body" THEN "sub" ELSE "parent"
       IN /\ ~tests[nm].failed
          /\ Becomes(FailTest(Now, nm))
    /\ UNCHANGED <<env, wrapVars, ctxVars, laterVars, hcalls, chain, phase, subHandle,
                   runResult, spawned, fcalls, parCalls, rcalls>>

\* f returns: the subtest runs its cleanup callbacks and Run returns
BodyReturn ==
    /\ phase = "body"
    /\ Becomes(RunCleanups(tests["sub"].cleanups, "sub", Now))
    /\ runResult' = IF tests["sub"].failed THEN "false" ELSE "true"
    /\ phase' = "after"
    /\ UNCHANGED <<env, wrapVars, ctxVars, laterVars, hcalls, chain, subHandle, spawned,
                   fcalls, parCalls, rcalls>>

\* the parent test returns and runs its cleanup callbacks
ParentDone ==
    /\ phase \in {"parent", "after"}
    /\ Becomes(RunCleanups(tests["parent"].cleanups, "parent", Now))
    /\ phase' = "done"
    /\ UNCHANGED <<env, wrapVars, ctxVars, laterVars, hcalls, chain, subHandle, runResult,
                   spawned, fcalls, parCalls, rcalls>>

\* Parallel(t)
Parallel ==
    /\ phase = "parent"
    /\ parCalls = <<>>
    /\ LET k == callParallel(chain, 1)
       IN /\ parCalls' = Append(parCalls, [fn |-> "Parallel", at |-> k])
          /\ IF k > 0 THEN UNCHANGED <<buffers, tests, capturedLogs>>
             ELSE Becomes(Deliver(chain,
                             LogfCall(<<"Ignoring .Parallel() call on ",
                                        "%s">>, <<TypeOf(chain)>>),
                             CallerStack("ntest.Parallel", 76), Now))
    /\ UNCHANGED <<env, wrapVars, ctxVars, laterVars, hcalls, chain, phase, subHandle,
                   runResult, spawned, fcalls, rcalls>>

\* mutant: MustParallel logs the message and lets the test go on
MustParallelOnlyLogs ==
    /\ phase = "parent"
    /\ parCalls = <<>>
    /\ LET k == callParallel(chain, 1)
       IN /\ parCalls' = Append(parCalls, [fn |-> "MustParallel", at |-> k])
          /\ IF k > 0 THEN UNCHANGED <<buffers, tests, capturedLogs>>
             ELSE Becomes(Deliver(chain,
                             LogfCall(<<"Parallel() not supported by ",
                                        "%s">>, <<TypeOf(chain)>>),
                             CallerStack("ntest.MustParallel", 86), Now))
    /\ UNCHANGED <<env, wrapVars, ctxVars, laterVars, hcalls, chain, phase, subHandle,
                   runResult, spawned, fcalls, rcalls>>

\* the test function calls Helper() on the handle it holds, a buffering
\* decorator, before it logs
RunHelper ==
    /\ Building
    /\ chain[1].type = BufferedT
    /\ hcalls = <<>>
    /\ hcalls' = Append(hcalls, [fn |-> TestFrame(0).fn, on |-> chain])
    /\ buffers' = HelperOn(chain, TestFrame(0).fn, buffers)
    /\ UNCHANGED <<env, wrapVars, ctxVars, laterVars, chain, tests,
                   capturedLogs, phase, subHandle, runResult, spawned, fcalls,
                   parCalls, rcalls>>

\* MustParallel(t)
MustParallel ==
    /\ phase = "parent"
    /\ parCalls = <<>>
    /\ LET k == callParallel(chain, 1)
       IN /\ parCalls' = Append(parCalls, [fn |-> "MustParallel", at |-> k])
          /\ IF k > 0 THEN UNCHANGED <<buffers, tests, capturedLogs>>
             ELSE Becomes(FailTest(
                     Deliver(chain,
                             LogfCall(<<"Parallel() not supported by ",
                                        "%s">>, <<TypeOf(chain)>>),
                             CallerStack("ntest.MustParallel", 86), Now),
                     "parent"))
    /\ UNCHANGED <<env, wrapVars, ctxVars, laterVars, hcalls, chain, phase, subHandle,
                   runResult, spawned, fcalls, rcalls>>

\* ------------------------------------------------------------------------
\* Specification: a test that wraps its handle, calls Parallel and Run
\* ------------------------------------------------------------------------
WrapIdle ==
    /\ hasDeadline = FALSE
    /\ handle = "none"
    /\ layers = <<>>
    /\ failed = FALSE
    /\ skipped = FALSE
    /\ cleanups = <<>>
    /\ captured = <<>>
    /\ entries = <<>>
    /\ cleanupCalled = FALSE
    /\ registry = [helpers |-> {}, seen |-> {}]
    /\ armed = FALSE
    /\ calls = <<>>
    /\ ran = "no"
    /\ fired = -1

RunInit ==
    /\ WrapIdle
    /\ CtxIdle
    /\ LaterIdle
    /\ env \in EnvValues
    /\ \E type \in NativeTypes :
          chain = <<Node(type, NodeId("parent", 0), NoLogger)>>
    /\ tests = [parent |-> NewTest, sub |-> NoTest]
    /\ buffers = <<>>
    /\ capturedLogs = <<>>
    /\ phase = "parent"
    /\ subHandle = <<>>
    /\ runResult = "none"
    /\ spawned = 0
    /\ fcalls = <<>>
    /\ parCalls = <<>>
    /\ rcalls = <<>>
    /\ hcalls = <<>>

RunNext ==
    \/ ChainExtraDetailLogger
    \/ ChainReplaceLogger
    \/ ChainBufferedLogger
    \/ ChainDecorate
    \/ Setenv
    \/ Run
    \/ RunLog
    \/ RunFail
    \/ BodyReturn
    \/ ParentDone
    \/ Parallel
    \/ MustParallel
    \/ RunHelper

RunSpec == RunInit /\ [][RunNext]_vars

\* ------------------------------------------------------------------------
\* BufferedLogger over BufferedLogger: the cleanup callbacks one at a time
\* ------------------------------------------------------------------------
\* a sequence without its i-th element
Without(q, i) == SubSeq(q, 1, i - 1) \o SubSeq(q, i + 1, Len(q))

\* the test handle runs one of the callbacks registered on it, whichever
\* the host takes next; the test may log and fail before, between and
\* after them (from its body, or from cleanups of its own)
RunOneCleanup ==
    /\ phase = "parent"
    /\ \E i \in DOMAIN tests["parent"].cleanups :
          LET w == RunCleanups(<<tests["parent"].cleanups[i]>>, "parent", Now)
          IN Becomes([w EXCEPT !.t["parent"].cleanups = Without(@, i)])
    /\ ran' = IF ran # "no" THEN ran
              ELSE IF tests["parent"].failed THEN "failed"
              ELSE IF tests["parent"].skipped THEN "skipped" ELSE "passed"
    /\ UNCHANGED <<env, hasDeadline, handle, layers, failed, skipped,
                   cleanups, captured, entries, cleanupCalled, registry,
                   armed, calls, fired, ctxVars, laterVars, hcalls, chain,
                   phase, subHandle, runResult, spawned, fcalls, parCalls,
                   rcalls>>

NestedNext ==
    \/ ChainBufferedLogger
    \/ RunLog
    \/ RunFail
    \/ RunOneCleanup

NestedSpec == RunInit /\ [][NestedNext]_vars

\* ------------------------------------------------------------------------
\* AutoCancel
\* ------------------------------------------------------------------------
\* ctx[1] is the context handed to AutoCancel: context.Background(), which
\* is never done, or one its owner can cancel; ctx[2], once AutoCancel
\* has returned, is the context it returned
ParentContexts == {"background", "live"}

Times(trace, what) == Cardinality({i \in DOMAIN trace : trace[i] = what})

\* mutant: the cancel function leaves the context as it is
cancelNothing(c) == c

\* cancel, the function context.WithCancel returned with ctx[2]
cancel(c) == <<c[1], "done">>

\* mutant: the function returned calls cancel every time
onceFuncEveryCall(c, o) == [c |-> cancel(c), o |-> <<TRUE, o[2] + 1>>]

\* onlyOnce, the function onceFunc(cancel) returned: once.Do(cancel); o is
\* the sync.Once, with the number of times it has run cancel
onceFunc(c, o) ==
    IF o[1] THEN [c |-> c, o |-> o]
    ELSE [c |-> cancel(c), o |-> <<TRUE, o[2] + 1>>]

\* AutoCancel(ctx, t): the derived context is done at once when its parent
\* is; onlyOnce is registered with t.Cleanup and returned
AutoCancel ==
    /\ ctxPhase = "body"
    /\ Len(ctx) = 1
    /\ ctx' = <<ctx[1], IF ctx[1] = "done" THEN "done" ELSE "live">>
    /\ once' = <<FALSE, 0>>
    /\ ctxCleanups' = Append(ctxCleanups, "onlyOnce")
    /\ ctxTrace' = Append(ctxTrace, "AutoCancel")
    /\ UNCHANGED <<env, wrapVars, laterVars, runVars, ctxPhase>>

\* the test registers a callback of its own: t.Cleanup(f)
OtherCleanup ==
    /\ ctxPhase = "body"
    /\ Times(ctxTrace, "Cleanup") < MaxOtherCleanups
    /\ ctxCleanups' = Append(ctxCleanups, "other")
    /\ ctxTrace' = Append(ctxTrace, "Cleanup")
    /\ UNCHANGED <<env, wrapVars, laterVars, runVars, ctx, once, ctxPhase>>

\* the test, or one of its callbacks, calls the Cancel it was given
CallCancel ==
    /\ ctxPhase \in {"body", "cleanup"}
    /\ Len(ctx) = 2
    /\ Times(ctxTrace, "Cancel") < MaxCancelCalls
    /\ ctx' = onceFunc(ctx, once).c
    /\ once' = onceFunc(ctx, once).o
    /\ ctxTrace' = Append(ctxTrace, "Cancel")
    /\ UNCHANGED <<env, wrapVars, laterVars, runVars, ctxCleanups, ctxPhase>>

\* the owner of the context handed to AutoCancel cancels it: every context
\* derived from it with context.WithCancel is done with it
ParentCancel ==
    /\ ctxPhase \in {"body", "cleanup"}
    /\ ctx[1] = "live"
    /\ ctx' = [i \in DOMAIN ctx |-> "done"]
    /\ ctxTrace' = Append(ctxTrace, "ParentCancel")
    /\ UNCHANGED <<env, wrapVars, laterVars, runVars, once, ctxCleanups, ctxPhase>>

\* the test function returns
TestReturns ==
    /\ ctxPhase = "body"
    /\ ctxPhase' = "cleanup"
    /\ ctxTrace' = Append(ctxTrace, "return")
    /\ UNCHANGED <<env, wrapVars, laterVars, runVars, ctx, once, ctxCleanups>>

\* the test handle runs the callback registered last
RunCleanup ==
    /\ ctxPhase = "cleanup"
    /\ ctxCleanups # <<>>
    /\ LET n == Len(ctxCleanups)
       IN /\ ctxCleanups' = SubSeq(ctxCleanups, 1, n - 1)
          /\ IF ctxCleanups[n] = "onlyOnce"
             THEN /\ ctx' = onceFunc(ctx, once).c
                  /\ once' = onceFunc(ctx, once).o
                  /\ ctxTrace' = Append(ctxTrace, "onlyOnce")
             ELSE /\ ctxTrace' = Append(ctxTrace, "other")
                  /\ UNCHANGED <<ctx, once>>
    /\ UNCHANGED <<env, wrapVars, laterVars, runVars, ctxPhase>>

\* every callback has run: the test is over
TestDone ==
    /\ ctxPhase = "cleanup"
    /\ ctxCleanups = <<>>
    /\ ctxPhase' = "done"
    /\ UNCHANGED <<env, wrapVars, laterVars, runVars, ctx, once, ctxCleanups, ctxTrace>>

CancelInit ==
    /\ WrapIdle
    /\ RunIdle
    /\ LaterIdle
    /\ env = ""
    /\ \E parent \in ParentContexts : ctx = <<parent>>
    /\ once = <<>>
    /\ ctxCleanups = <<>>
    /\ ctxTrace = <<>>
    /\ ctxPhase = "body"

CancelNext ==
    \/ AutoCancel
    \/ OtherCleanup
    \/ CallCancel
    \/ ParentCancel
    \/ TestReturns
    \/ RunCleanup
    \/ TestDone

CancelSpec == CancelInit /\ [][CancelNext]_vars

\* ------------------------------------------------------------------------
\* RunMatrix and RunParallelMatrix
\* ------------------------------------------------------------------------
\* the longest chain a test passes to RunMatrix, and the most matrices in
\* it
MaxChain == 3
MaxMatrices == 2

\* the keys of a map[string]nject.Provider
VariantNames == {"testA", "testB"}

\* the name of the test RunMatrix is called in
MatrixRoot == <<"TestMatrix">>

\* the handles RunMatrix is called with
MatrixHandles == {TestingT, EmbedsTestingT, PlainT, TestingB}

\* the items of a chain: the i-th argument as an ordinary injector, a
\* matrix with its keys, the provider of one key, and the provider named
\* "testing.T" that hands out the *testing.T of the test called of
Injector(i) == [kind |-> "injector", at |-> i, names |-> {}, of |-> <<>>]
Matrix(keys) == [kind |-> "matrix", at |-> 0, names |-> keys, of |-> <<>>]
SubChain(name) == [kind |-> "subChain", at |-> 0, names |-> {name},
                   of |-> <<>>]
NamedTestingT(path) == [kind |-> "testing.T", at |-> 0, names |-> {},
                        of |-> path]

\* the chains of at most MaxChain direct arguments
Chains ==
    UNION {{c \in [1..n -> {Injector(i) : i \in 1..MaxChain}
                            \cup {Matrix(keys) : keys \in SUBSET VariantNames}] :
               /\ \A i \in 1..n : c[i].kind = "injector" => c[i].at = i
               /\ Cardinality({i \in 1..n : c[i].kind = "matrix"})
                      <= MaxMatrices} :
           n \in 0..MaxChain}

\* mutant: a chain without a matrix is taken as one with an empty matrix
\* at its end
breakChainEmptyMatrix(args) ==
    IF \E i \in DOMAIN args : args[i].kind = "matrix"
    THEN LET i == CHOOSE k \in DOMAIN args :
                     /\ args[k].kind = "matrix"
                     /\ \A j \in 1..(k - 1) : args[j].kind # "matrix"
         IN [found |-> TRUE, matrix |-> args[i].names,
             before |-> SubSeq(args, 1, i - 1),
             after |-> SubSeq(args, i + 1, Len(args))]
    ELSE [found |-> TRUE, matrix |-> {}, before |-> args, after |-> <<>>]

\* breakChain: the first matrix of the chain, what stands before it and
\* what stands after it
breakChain(args) ==
    IF \E i \in DOMAIN args : args[i].kind = "matrix"
    THEN LET i == CHOOSE k \in DOMAIN args :
                     /\ args[k].kind = "matrix"
                     /\ \A j \in 1..(k - 1) : args[j].kind # "matrix"
         IN [found |-> TRUE, matrix |-> args[i].names,
             before |-> SubSeq(args, 1, i - 1),
             after |-> SubSeq(args, i + 1, Len(args))]
    ELSE [found |-> FALSE, matrix |-> {}, before |-> args, after |-> <<>>]

\* testingT(t): the named provider of t when t is a *testing.T
testingT(type, path) ==
    IF type = TestingT THEN <<NamedTestingT(path)>> ELSE <<>>

\* mutant: the provider of the variant is left out of the chain
variantChainWithoutSubChain(type, path, before, name, after) ==
    testingT(type, path) \o before \o after

\* combineSlices(testingT(t), before, []any{subChain}, after)
variantChain(type, path, before, name, after) ==
    testingT(type, path) \o before \o <<SubChain(name)>> \o after

\* a startTest loop over the keys of matrix that are left, or the body of
\* the subtest started for the key sub; t is the handle of the startTest
\* call, named outer
Loop(path, type, keys, before, after) ==
    [st |-> "loop", path |-> path, type |-> type, left |-> keys,
     before |-> before, after |-> after, sub |-> "", outer |-> <<>>,
     outerType |-> "none"]
Body(path, sub, before, after, outer, outerType) ==
    [st |-> "body", path |-> path, type |-> TestingT, left |-> {},
     before |-> before, after |-> after, sub |-> sub, outer |-> outer,
     outerType |-> outerType]
Done(task) == [task EXCEPT !.st = "done"]

IsPrefix(p, q) == Len(p) <= Len(q) /\ SubSeq(q, 1, Len(p)) = p

\* the subtests below task that have not returned
Pending(task) ==
    {x \in mTasks : /\ x.path # task.path
                    /\ IsPrefix(task.path, x.path)
                    /\ x.st # "done"}

\* RunMatrix(t, chain...) / RunParallelMatrix(t, chain...) up to the first
\* startTest call
RunMatrixCall ==
    /\ mPhase = "ready"
    /\ IF ~IsRunner([type |-> mT])
       THEN /\ mLog' = Append(mLog, <<"Run not supported by ", mT>>)
            /\ mFailed' = TRUE
            /\ mPhase' = "returned"
            /\ UNCHANGED mTasks
       ELSE LET b == breakChain(mChain)
            IN IF ~b.found
               THEN /\ mLog' = Append(mLog,
                                  <<"FAIL: matrix test requires a matrix">>)
                    /\ mFailed' = TRUE
                    /\ mPhase' = "returned"
                    /\ UNCHANGED mTasks
               ELSE /\ mTasks' = {Loop(MatrixRoot, mT, b.matrix, b.before,
                                       b.after)}
                    /\ mPhase' = "running"
                    /\ UNCHANGED <<mLog, mFailed>>
    /\ UNCHANGED <<matrixFrame, mT, mParallel, mChain,
                   mSpawned, mRuns>>

\* one round of the loop of startTest: RunWithReWrap(t, name, ...) starts
\* the subtest t.Name()/name; the keys of a map come in any order.  Run
\* returns when the subtest has returned or has called Parallel
StartTest ==
    \E task \in mTasks :
        /\ task.st = "loop"
        /\ mParallel \/ Pending(task) = {}
        /\ \E name \in task.left :
              /\ mSpawned' = mSpawned (+) SetToBag({Append(task.path, name)})
              /\ mTasks' = (mTasks \ {task})
                    \cup {[task EXCEPT !.left = @ \ {name}],
                          Body(Append(task.path, name), name, task.before,
                               task.after, task.path, task.type)}
        /\ UNCHANGED <<matrixFrame, mT, mParallel, mChain,
                       mPhase, mRuns, mFailed, mLog>>

\* the function RunWithReWrap runs in the subtest: after Parallel the
\* subtest waits for the function that started it to return; then RunTest
\* on the chain of the variant, or startTest on the next matrix
VariantBody ==
    \E task \in mTasks :
        /\ task.st = "body"
        /\ mParallel =>
              \A x \in mTasks : x.path = task.outer => x.st = "done"
        /\ LET b == breakChain(task.after)
           IN IF ~b.found
              THEN /\ mRuns' = mRuns (+) SetToBag({
                        [name |-> task.path,
                         args |-> variantChain(task.outerType, task.outer,
                                               task.before, task.sub,
                                               task.after)]})
                   /\ mTasks' = (mTasks \ {task}) \cup {Done(task)}
              ELSE /\ mTasks' = (mTasks \ {task})
                        \cup {Loop(task.path, task.type, b.matrix,
                                   task.before \o b.before
                                       \o <<SubChain(task.sub)>>,
                                   b.after)}
                   /\ UNCHANGED mRuns
        /\ UNCHANGED <<matrixFrame, mT, mParallel, mChain,
                       mPhase, mSpawned, mFailed, mLog>>

\* the loop of startTest is over: startTest returns, and with it RunMatrix
\* or the subtest it was called in
StartTestReturns ==
    \E task \in mTasks :
        /\ task.st = "loop"
        /\ task.left = {}
        /\ mParallel \/ Pending(task) = {}
        /\ mTasks' = (mTasks \ {task}) \cup {Done(task)}
        /\ mPhase' = IF task.path = MatrixRoot THEN "returned" ELSE mPhase
        /\ UNCHANGED <<matrixFrame, mT, mParallel, mChain,
                       mSpawned, mRuns, mFailed, mLog>>

MatrixInit ==
    /\ WrapIdle
    /\ RunIdle
    /\ CtxIdle
    /\ LockIdle
    /\ ResolverIdle
    /\ SkipIdle
    /\ env = ""
    /\ mT \in MatrixHandles
    /\ mParallel \in BOOLEAN
    /\ mChain \in Chains
    /\ mPhase = "ready"
    /\ mTasks = {}
    /\ mSpawned = EmptyBag
    /\ mRuns = EmptyBag
    /\ mFailed = FALSE
    /\ mLog = <<>>

MatrixNext ==
    \/ RunMatrixCall
    \/ StartTest
    \/ VariantBody
    \/ StartTestReturns

MatrixSpec == MatrixInit /\ [][MatrixNext]_vars

\* ------------------------------------------------------------------------
\* Goroutines that log on one bufferedLoggerT while its cleanup runs
\* ------------------------------------------------------------------------
\* how many Log calls, and how many Helper calls, each goroutine makes
MaxLogsEach == 2
MaxHelpersEach == 1

\* how many calls the goroutines make in all where every call must return
MaxFairCalls == 2

\* the goroutines of the test that log, and the one that runs the cleanups
Loggers == {"g1", "g2"}
Cleaner == "cleanup"

\* the message, and the entry, of the k-th Log call of goroutine g
LockMessage(g, k) == <<g, " ", <<"one", "two", "three", "four">>[k]>>
LockEntry(g, k) ==
    [message |-> LockMessage(g, k), file |-> <<"lock_test.go">>, line |-> k]

\* mutant: Lock() returns at once, whoever holds the mutex
LockAvailableAlways(holder) == TRUE

\* sync.Mutex.Lock() returns when nobody holds the mutex
LockAvailable(holder) == holder = "free"

\* the function goroutine g runs, the helper of it that calls Helper(),
\* and what logMessage finds above Log when g logs for the k-th time
GoFn(g) == IF g = "g1" THEN "TestLock.func1" ELSE "TestLock.func2"
HelperFn(g) == IF g = "g1" THEN "TestLock.func1.1" ELSE "TestLock.func2.1"
LockStack(g, k) ==
    <<Frame(GoFn(g), <<"ntest", "lock_test.go">>, k),
      Frame("runtime.goexit", <<"runtime", "asm.s">>, 1700)>>

\* the function markHelper(0) finds two frames up: the caller of Helper()
CallerOfHelper(g) ==
    IF op[g] = "Log" THEN BufferedLogFrame("Log").fn ELSE HelperFn(g)

\* mutant: isHelper returns with the read lock held
RUnlockForgotten(m, g) == m

\* the deferred bl.mu.RUnlock() of isHelper
RUnlock(m, g) == [m EXCEPT !.readers = @ \ {g}]

\* Log / Logf is called: bl.Helper() comes first
LogBegin(g) ==
    /\ pc[g] = "idle"
    /\ done[g] < MaxLogsEach
    /\ op' = [op EXCEPT ![g] = "Log"]
    /\ frameAt' = [frameAt EXCEPT ![g] = 1]
    /\ pc' = [pc EXCEPT ![g] = "mu"]
    /\ UNCHANGED <<lockFrame, registry, mu, helped,
                   failed, cleanups, captured, entries,
                   cleanupCalled, entryLock, done, order, seen>>

\* a helper function of the goroutine calls Helper() on the handle
HelperBegin(g) ==
    /\ pc[g] = "idle"
    /\ helped[g] < MaxHelpersEach
    /\ op' = [op EXCEPT ![g] = "Helper"]
    /\ pc' = [pc EXCEPT ![g] = "mu"]
    /\ UNCHANGED <<lockFrame, registry, mu, helped, frameAt,
                   failed, cleanups, captured, entries,
                   cleanupCalled, entryLock, done, order, seen>>

\* markHelper: bl.mu.Lock() shuts the readers to come out
MuLock(g) ==
    /\ pc[g] = "mu"
    /\ LockAvailable(mu.writer)
    /\ mu' = [mu EXCEPT !.writer = g]
    /\ pc' = [pc EXCEPT ![g] = "drain"]
    /\ UNCHANGED <<lockFrame, registry, op, helped, frameAt,
                   failed, cleanups, captured, entries,
                   cleanupCalled, entryLock, done, order, seen>>

\* bl.mu.Lock() returns when the readers that were in have left
MuDrained(g) ==
    /\ pc[g] = "drain"
    /\ mu.readers = {}
    /\ pc' = [pc EXCEPT ![g] = "mark"]
    /\ UNCHANGED <<lockFrame, registry, muVars,
                   failed, cleanups, captured, entries,
                   cleanupCalled, entryLock, done, order, seen>>

\* markHelper between Lock and Unlock: seen and helpers
MuMark(g) ==
    /\ pc[g] = "mark"
    /\ registry' = markHelper(registry, CallerOfHelper(g))
    /\ pc' = [pc EXCEPT ![g] = "muUnlock"]
    /\ UNCHANGED <<lockFrame, muVars,
                   failed, cleanups, captured, entries,
                   cleanupCalled, entryLock, done, order, seen>>

\* the deferred bl.mu.Unlock(); MarkHelpers(bl.T) finds no FlexHelper;
\* Helper() returns, to its caller or into Log
MuUnlock(g) ==
    /\ pc[g] = "muUnlock"
    /\ mu' = [mu EXCEPT !.writer = "free"]
    /\ pc' = [pc EXCEPT ![g] = IF op[g] = "Log" THEN "rlock" ELSE "idle"]
    /\ op' = [op EXCEPT ![g] = IF op[g] = "Log" THEN "Log" ELSE "none"]
    /\ helped' = [helped EXCEPT ![g] = IF op[g] = "Log" THEN @ ELSE @ + 1]
    /\ UNCHANGED <<lockFrame, registry, frameAt,
                   failed, cleanups, captured, entries,
                   cleanupCalled, entryLock, done, order, seen>>

\* logMessage, the loop over the frames: isHelper takes bl.mu.RLock()
MuRLock(g) ==
    /\ pc[g] = "rlock"
    /\ LockAvailable(mu.writer)
    /\ mu' = [mu EXCEPT !.readers = @ \cup {g}]
    /\ pc' = [pc EXCEPT ![g] = "isHelper"]
    /\ UNCHANGED <<lockFrame, registry, op, helped, frameAt,
                   failed, cleanups, captured, entries,
                   cleanupCalled, entryLock, done, order, seen>>

\* isHelper reads the map and unlocks; the loop breaks at a frame that is
\* not a helper, or at the last frame, and goes on to the next otherwise
MuRUnlock(g) ==
    /\ pc[g] = "isHelper"
    /\ mu' = RUnlock(mu, g)
    /\ LET frames == Callers(CallersSkip,
                             <<LogMessageFrame, BufferedLogFrame("Log")>>
                             \o LockStack(g, done[g] + 1))
           more == frameAt[g] < Len(frames)
       IN IF isHelper(registry.helpers, frames[frameAt[g]].fn) /\ more
          THEN /\ frameAt' = [frameAt EXCEPT ![g] = @ + 1]
               /\ pc' = [pc EXCEPT ![g] = "rlock"]
          ELSE /\ frameAt' = frameAt
               /\ pc' = [pc EXCEPT ![g] = "lock"]
    /\ UNCHANGED <<lockFrame, registry, op, helped,
                   failed, cleanups, captured, entries,
                   cleanupCalled, entryLock, done, order, seen>>

\* bl.entryLock.Lock()
LogLock(g) ==
    /\ pc[g] = "lock"
    /\ LockAvailable(entryLock)
    /\ entryLock' = g
    /\ order' = Append(order, <<g, done[g] + 1>>)
    /\ pc' = [pc EXCEPT ![g] = "read"]
    /\ UNCHANGED <<lockFrame, registry, muVars,
                   failed, cleanups, captured, entries,
                   cleanupCalled, done, seen>>

\* if bl.cleanupCalled
LogRead(g) ==
    /\ pc[g] = "read"
    /\ pc' = [pc EXCEPT ![g] = IF EmitNow(cleanupCalled) THEN "emit"
                                ELSE "append"]
    /\ UNCHANGED <<lockFrame, registry, muVars,
                   failed, cleanups, captured, entries,
                   cleanupCalled, entryLock, done, order, seen>>

\* bl.T.Helper(); bl.T.Logf("[%s:%d] %s", file, line, message)
LogEmit(g) ==
    /\ pc[g] = "emit"
    /\ LET e == LockEntry(g, done[g] + 1)
       IN captured' = InnerLogf(captured,
                         <<"[", "%s", ":", "%d", "]", " ", "%s">>,
                         <<e.file, e.line, e.message>>)
    /\ pc' = [pc EXCEPT ![g] = "unlock"]
    /\ UNCHANGED <<lockFrame, registry, muVars,
                   failed, cleanups, entries, cleanupCalled,
                   entryLock, done, order, seen>>

\* bl.entries = append(bl.entries, entry)
LogAppend(g) ==
    /\ pc[g] = "append"
    /\ entries' = AppendEntry(entries, LockEntry(g, done[g] + 1))
    /\ pc' = [pc EXCEPT ![g] = "unlock"]
    /\ UNCHANGED <<lockFrame, registry, muVars,
                   failed, cleanups, captured, cleanupCalled,
                   entryLock, done, order, seen>>

\* the deferred bl.entryLock.Unlock(); Log returns
LogUnlock(g) ==
    /\ pc[g] = "unlock"
    /\ entryLock' = "free"
    /\ done' = [done EXCEPT ![g] = @ + 1]
    /\ pc' = [pc EXCEPT ![g] = "idle"]
    /\ op' = [op EXCEPT ![g] = "none"]
    /\ UNCHANGED <<lockFrame, registry, mu, helped, frameAt,
                   failed, cleanups, captured, entries,
                   cleanupCalled, order, seen>>

\* the test fails while its goroutines log
LockFail ==
    /\ pc[Cleaner] = "idle"
    /\ ~failed
    /\ failed' = TRUE
    /\ UNCHANGED <<lockFrame, registry, cleanups, captured, entries,
                   cleanupCalled, lockVars>>

\* the test handle calls the callback: wrapped.entryLock.Lock()
CleanupLock ==
    /\ pc[Cleaner] = "idle"
    /\ cleanups # <<>>
    /\ LockAvailable(entryLock)
    /\ cleanups' = SubSeq(cleanups, 1, Len(cleanups) - 1)
    /\ entryLock' = Cleaner
    /\ order' = Append(order, <<Cleaner, 0>>)
    /\ pc' = [pc EXCEPT ![Cleaner] = "set"]
    /\ UNCHANGED <<lockFrame, registry, muVars,
                   failed, captured, entries, cleanupCalled,
                   done, seen>>

\* wrapped.cleanupCalled = true
CleanupSet ==
    /\ pc[Cleaner] = "set"
    /\ cleanupCalled' = TRUE
    /\ pc' = [pc EXCEPT ![Cleaner] = "flush"]
    /\ UNCHANGED <<lockFrame, registry, muVars,
                   failed, cleanups, captured, entries,
                   entryLock, done, order, seen>>

\* the block, or the count of what is dropped, goes to the test handle
CleanupFlush ==
    /\ pc[Cleaner] = "flush"
    /\ seen' = entries
    /\ captured' = FlushOutput(captured, failed, skipped, entries)
    /\ pc' = [pc EXCEPT ![Cleaner] = "unlock"]
    /\ UNCHANGED <<lockFrame, registry, muVars,
                   failed, cleanups, entries, cleanupCalled,
                   entryLock, done, order>>

\* the deferred wrapped.entryLock.Unlock()
CleanupUnlock ==
    /\ pc[Cleaner] = "unlock"
    /\ entryLock' = "free"
    /\ pc' = [pc EXCEPT ![Cleaner] = "done"]
    /\ UNCHANGED <<lockFrame, registry, muVars,
                   failed, cleanups, captured, entries,
                   cleanupCalled, done, order, seen>>

LockInit ==
    /\ RunIdle
    /\ CtxIdle
    /\ MatrixIdle
    /\ ResolverIdle
    /\ SkipIdle
    /\ env = ""
    /\ hasDeadline = FALSE
    /\ handle = Wrapped
    /\ layers = <<>>
    /\ failed = FALSE
    /\ skipped = FALSE
    /\ cleanups = <<"flush">>
    /\ captured = <<>>
    /\ entries = <<>>
    /\ cleanupCalled = FALSE
    /\ registry = [helpers |-> {}, seen |-> {}]
    /\ armed = FALSE
    /\ calls = <<>>
    /\ ran = "no"
    /\ fired = -1
    /\ entryLock = "free"
    /\ pc = [g \in Loggers \cup {Cleaner} |-> "idle"]
    /\ done = [g \in Loggers |-> 0]
    /\ order = <<>>
    /\ seen = <<>>
    /\ mu = [writer |-> "free", readers |-> {}]
    /\ op = [g \in Loggers |-> "none"]
    /\ helped = [g \in Loggers |-> 0]
    /\ frameAt = [g \in Loggers |-> 1]

LockNext ==
    \/ \E g \in Loggers : LogBegin(g)
    \/ \E g \in Loggers : HelperBegin(g)
    \/ \E g \in Loggers : MuLock(g)
    \/ \E g \in Loggers : MuDrained(g)
    \/ \E g \in Loggers : MuMark(g)
    \/ \E g \in Loggers : MuUnlock(g)
    \/ \E g \in Loggers : MuRLock(g)
    \/ \E g \in Loggers : MuRUnlock(g)
    \/ \E g \in Loggers : LogLock(g)
    \/ \E g \in Loggers : LogRead(g)
    \/ \E g \in Loggers : LogEmit(g)
    \/ \E g \in Loggers : LogAppend(g)
    \/ \E g \in Loggers : LogUnlock(g)
    \/ LockFail
    \/ CleanupLock
    \/ CleanupSet
    \/ CleanupFlush
    \/ CleanupUnlock

LockSpec == LockInit /\ [][LockNext]_vars

\* the calls the goroutines have begun, all together
Begun(p, d, h) ==
    LET Of(g) == d[g] + h[g] + (IF p[g] = "idle" THEN 0 ELSE 1)
    IN Of("g1") + Of("g2")

\* the same goroutines, making MaxFairCalls calls between them
LockFairNext == LockNext /\ Begun(pc', done', helped') <= MaxFairCalls

\* a step of goroutine g inside a call that needs no lock to be free
Runs(g) ==
    \/ MuDrained(g) \/ MuMark(g) \/ MuUnlock(g) \/ MuRUnlock(g)
    \/ LogRead(g) \/ LogEmit(g) \/ LogAppend(g) \/ LogUnlock(g)

\* the scheduler runs every goroutine that can run, and sync.Mutex and
\* sync.RWMutex hand the lock to a goroutine that keeps waiting for it
LockFairSpec ==
    /\ LockInit
    /\ [][LockFairNext]_vars
    /\ \A g \in Loggers :
          /\ WF_vars(Runs(g))
          /\ SF_vars(MuLock(g))
          /\ SF_vars(MuRLock(g))
          /\ SF_vars(LogLock(g))
    /\ WF_vars(CleanupSet \/ CleanupFlush \/ CleanupUnlock)
    /\ SF_vars(CleanupLock)

\* ------------------------------------------------------------------------
\* The call-site resolver of logMessage under deep stacks
\* ------------------------------------------------------------------------
\* how often the helper function of the test calls itself
MaxDepth == 33

\* the line of the test function its helper is called from
ResolverLine == 254

\* the callers of Log: the helper of the test d deep, the test function,
\* and what runs the test function
RECURSIVE HelperFrames(_)
HelperFrames(d) ==
    IF d = 0 THEN <<>> ELSE <<UserHelperFrame>> \o HelperFrames(d - 1)

DeepStack(d) == HelperFrames(d) \o <<TestFrame(ResolverLine)>> \o RunnerFrames

\* the function that stands on top of the stack
Running(d) == DeepStack(d)[1].fn

\* the helper of the test is called, by the test function or by itself
Deeper ==
    /\ rDepth < MaxDepth
    /\ rDepth' = rDepth + 1
    /\ UNCHANGED <<resolverFrame, rReg, rSite>>

\* the function on top of the stack calls Helper() on the bufferedLoggerT
CallHelper ==
    /\ rReg' = markHelper(rReg, Running(rDepth))
    /\ rReg' # rReg
    /\ UNCHANGED <<resolverFrame, rDepth, rSite>>

\* the function on top of the stack calls Log or Logf
ResolveLog ==
    \E method \in {"Log", "Logf"} :
        LET reg1 == markHelper(rReg, BufferedLogFrame(method).fn)
        IN /\ rReg' = reg1
           /\ rSite' = [stack |-> DeepStack(rDepth),
                        helpers |-> reg1.helpers,
                        site |-> resolveSite(method, DeepStack(rDepth),
                                             reg1.helpers)]
           /\ UNCHANGED <<resolverFrame, rDepth>>

ResolverInit ==
    /\ WrapIdle
    /\ RunIdle
    /\ CtxIdle
    /\ MatrixIdle
    /\ LockIdle
    /\ SkipIdle
    /\ env = ""
    /\ rDepth = 0
    /\ rReg = [helpers |-> {}, seen |-> {}]
    /\ rSite = <<>>

ResolverNext ==
    \/ Deeper
    \/ CallHelper
    \/ ResolveLog

ResolverSpec == ResolverInit /\ [][ResolverNext]_vars

\* ------------------------------------------------------------------------
\* The static skip-frame scheme of LoggerT (logger.go)
\* ------------------------------------------------------------------------
\* how many handles a test builds over one BufferedLogger
MaxHandles == 3

\* a handle is the sequence of the wrappers around the buffering LoggerT,
\* outermost first: <<>> is the handle BufferedLogger returned
SkipKinds == {"extra", "replace"}

\* frames of the package in this scheme
BufferClosureFrame == Frame("createBufferedLoggerWithDynamicSkip.func", LoggerGo, 202)
LoggerTLogFrame(method) ==
    IF method = "Log" THEN Frame("LoggerT.Log", LoggerGo, 32)
    ELSE Frame("LoggerT.Logf", LoggerGo, 36)
ExtraLogFrame(method) ==
    IF method = "Log" THEN Frame("ExtraDetailLoggerT.Log", LoggerGo, 107)
    ELSE Frame("ExtraDetailLoggerT.Logf", LoggerGo, 113)
TransformFrame == Frame("TestFn.func1", TestGo, 15)

\* the frames a Log / Logf call on handle h puts between the user's
\* statement and the handle beneath: ExtraDetailLoggerT.Log / Logf calls
\* t.orig.Log; LoggerT.Log / Logf calls the logger function of
\* ReplaceLogger, which calls Log on the handle it was made for
RECURSIVE WrapperFrames(_, _)
WrapperFrames(h, method) ==
    IF h = <<>> THEN <<LoggerTLogFrame(method)>>
    ELSE IF Head(h) = "extra"
         THEN WrapperFrames(Tail(h), "Log") \o <<ExtraLogFrame(method)>>
    ELSE WrapperFrames(Tail(h), "Log")
             \o <<TransformFrame, LoggerTLogFrame(method)>>

\* the stack in the logger function of the buffering LoggerT, the function
\* itself first
SkipStack(h, method, l) ==
    <<BufferClosureFrame>> \o WrapperFrames(h, method) \o UserStack("direct", l)

\* runtime.Caller(skip) in the logger function: file with its directory
\* cut off, line; "unknown", 0 when there is no such frame
Caller(skip, stack) ==
    IF skip + 1 > Len(stack) THEN [file |-> <<"unknown">>, line |-> 0]
    ELSE [file |-> Base(stack[skip + 1].file), line |-> stack[skip + 1].line]

\* AdjustSkipFrames called on handle h reaches the buffering LoggerT: the
\* pointers BufferedLogger and ExtraDetailLogger return have the method,
\* the LoggerT value ReplaceLogger returns has not
RECURSIVE AdjustReaches(_)
AdjustReaches(h) ==
    IF h = <<>> THEN TRUE
    ELSE IF Head(h) = "extra" THEN AdjustReaches(Tail(h))
    ELSE FALSE

\* BufferedLogger(t)
StaticBufferedLogger ==
    /\ sHandles = <<>>
    /\ sHandles' = <<<<>>>>
    /\ skipFrames' = 0
    /\ UNCHANGED <<skipFrame, sEntries>>

\* ExtraDetailLogger(h, prefix) on a handle the test holds
StaticExtraDetailLogger ==
    /\ Len(sHandles) < MaxHandles
    /\ \E i \in DOMAIN sHandles :
          /\ Len(sHandles[i]) < MaxLayers
          /\ sHandles' = Append(sHandles, <<"extra">> \o sHandles[i])
          /\ skipFrames' = IF AdjustReaches(sHandles[i]) THEN skipFrames + 1
                           ELSE skipFrames
    /\ UNCHANGED <<skipFrame, sEntries>>

\* ReplaceLogger(h, func(s string) { h.Log(s) }) on a handle the test holds
StaticReplaceLogger ==
    /\ Len(sHandles) < MaxHandles
    /\ \E i \in DOMAIN sHandles :
          /\ Len(sHandles[i]) < MaxLayers
          /\ sHandles' = Append(sHandles, <<"replace">> \o sHandles[i])
    /\ UNCHANGED <<skipFrame, skipFrames, sEntries>>

\* the test function calls Log or Logf on one of its handles
StaticLog ==
    /\ Len(sEntries) < MaxCalls
    /\ \E i \in DOMAIN sHandles : \E method \in {"Log", "Logf"} :
          LET l == UserLine(Len(sEntries) + 1)
              site == Caller(2 + skipFrames, SkipStack(sHandles[i], method, l))
          IN sEntries' = Append(sEntries,
                 [on |-> sHandles[i], user |-> l, file |-> site.file,
                  line |-> site.line, skip |-> 2 + skipFrames,
                  between |-> Len(WrapperFrames(sHandles[i], method)) + 1])
    /\ UNCHANGED <<skipFrame, sHandles, skipFrames>>

SkipInit ==
    /\ WrapIdle
    /\ RunIdle
    /\ CtxIdle
    /\ MatrixIdle
    /\ LockIdle
    /\ ResolverIdle
    /\ env = ""
    /\ sHandles = <<>>
    /\ skipFrames = 0
    /\ sEntries = <<>>

SkipNext ==
    \/ StaticBufferedLogger
    \/ StaticExtraDetailLogger
    \/ StaticReplaceLogger
    \/ StaticLog

SkipSpec == SkipInit /\ [][SkipNext]_vars

\* ------------------------------------------------------------------------
\* Reading the output of the test handle
\* ------------------------------------------------------------------------
Contains(text, tok) == \E i \in DOMAIN text : text[i] = tok

\* the lines of a text, each without its newline
RECURSIVE SplitFrom(_, _, _, _)
SplitFrom(text, i, cur, acc) ==
    IF i > Len(text) THEN (IF cur = <<>> THEN acc ELSE Append(acc, cur))
    ELSE IF text[i] = "\n" THEN SplitFrom(text, i + 1, <<>>, Append(acc, cur))
    ELSE SplitFrom(text, i + 1, Append(cur, text[i]), acc)

SplitLines(text) == SplitFrom(text, 1, <<>>, <<>>)

IsBlock(r) ==
    /\ r.method = "Log"
    /\ r.text # <<>>
    /\ r.text[1] = "=== Buffered Log Output (test failed) ==="

Blocks == {i \in DOMAIN captured : IsBlock(captured[i])}

IsDiagnostic(r) == r.method = "Logf" /\ r.text[1] = "dropping "

\* the calls made before the flush, in the order they were made
BeforeCalls == SelectSeq(calls, LAMBDA c : c.before)

\* the entry lines of a block are those of calls cs, one per call, in order
BlockHolds(r, cs) ==
    LET ls == SplitLines(r.text)
    IN /\ Len(ls) = Len(cs) + 2
       /\ \A j \in 1..Len(cs) :
             /\ Contains(ls[j + 1], MsgTok[cs[j].id])
             /\ \A k \in 1..Len(calls) :
                   k # cs[j].id => ~Contains(ls[j + 1], MsgTok[k])

\* C1: with buffering on, when the cleanup callback runs in a failed test
\* after N >= 1 Log/Logf calls, the one block it emits to the test handle
\* has exactly N entries, one per call, in the order of the calls.
C1_FailedFlushHasEveryCallInOrder ==
    (handle = Wrapped /\ ran = "failed" /\ Len(BeforeCalls) >= 1) =>
        /\ Cardinality(Blocks) = 1
        /\ \A i \in Blocks : BlockHolds(captured[i], BeforeCalls)

C1_Witness ==
    /\ handle = Wrapped
    /\ ran = "failed"
    /\ Len(BeforeCalls) >= 2
    /\ Cardinality(Blocks) = 1

\* C2: with buffering on, nothing reaches the test handle before the cleanup
\* callback, and when the callback runs in a test that is neither failed
\* nor skipped, no message logged before it is ever passed to the test
\* handle: it receives at most the diagnostic counting the dropped entries.
C2_PassingTestEmitsNoBufferedMessage ==
    handle = Wrapped =>
        /\ ran = "no" => captured = <<>>
        /\ ran = "passed" =>
              /\ Blocks = {}
              /\ \A i \in DOMAIN captured : \A j \in DOMAIN calls :
                    calls[j].before =>
                        ~Contains(captured[i].text, MsgTok[calls[j].id])

C2_Witness ==
    /\ handle = Wrapped
    /\ ran = "passed"
    /\ Len(BeforeCalls) >= 2
    /\ \E i \in DOMAIN captured : IsDiagnostic(captured[i])

TestFile == <<"logger_test.go">>

\* the buffered entry of the i-th call (no flush clears the buffer when the
\* test handle has no deadline)
DirectEntries == {i \in DOMAIN entries : calls[i].level = 0}

\* C3 as stated: every entry buffered by a Log/Logf call made directly on
\* the BufferedLogger handle records the base file name and the line of the
\* user statement that called Log/Logf.
C3_EntryRecordsCallingStatement ==
    \A i \in DirectEntries :
        /\ entries[i].file = TestFile
        /\ entries[i].line = calls[i].stmtLine

\* C3 as amended: every entry buffered by a Log/Logf call made directly on
\* the BufferedLogger handle records the base file name and the line of the
\* innermost frame, from the calling statement outward, whose function has
\* not called Helper() on the handle: the calling statement itself when its
\* function is no helper, else the statement of the test function that
\* called the helper; never a frame of logger.go.
C3_EntryRecordsFirstNonHelperFrame ==
    \A i \in DirectEntries :
        /\ entries[i].file = TestFile
        /\ entries[i].line = calls[i].siteLine
        /\ calls[i].caller = "direct" => entries[i].line = calls[i].stmtLine

C3_Witness ==
    /\ \E i \in DirectEntries : calls[i].caller = "helper"
    /\ \E i \in DirectEntries :
          calls[i].caller = "direct" /\ calls[i].method = "Logf"

\* the entries of calls made on the outermost handle of a chain of at least
\* one layer in which every transform marks itself with Helper()
ChainEntries ==
    {i \in DOMAIN entries : calls[i].level >= 1 /\ calls[i].marking}

\* the message carries the output of every transform of the chain
CarriesTransforms(message, id) ==
    /\ Contains(message, MsgTok[id])
    /\ \A k \in DOMAIN layers :
          /\ layers[k].kind = "extra" =>
                /\ Contains(message, layers[k].prefix)
                /\ Contains(message, TimeStamp[1])
          /\ layers[k].kind = "replace3" => Contains(message, " SUFFIX")

\* C4 as stated: through a chain of prefixing / replace-logger layers over a
\* BufferedLogger whose transforms mark themselves with Helper(), a Log call
\* on the outermost handle buffers an entry whose message carries the
\* output of the transforms and whose file:line is that of the user
\* statement that made the call.
C4_ChainEntryRecordsCallingStatement ==
    \A i \in ChainEntries :
        /\ CarriesTransforms(entries[i].message, calls[i].id)
        /\ entries[i].file = TestFile
        /\ entries[i].line = calls[i].stmtLine

\* C4 as amended: ... whose message carries the output of the transforms
\* and whose file:line is that of the innermost frame, from the user
\* statement outward, whose function has not called Helper(): the user
\* statement itself when its function is no helper; never the line of a
\* transform nor a frame of logger.go.
C4_ChainEntryRecordsFirstNonHelperFrame ==
    \A i \in ChainEntries :
        /\ CarriesTransforms(entries[i].message, calls[i].id)
        /\ entries[i].file = TestFile
        /\ entries[i].line = calls[i].siteLine
        /\ calls[i].caller = "direct" => entries[i].line = calls[i].stmtLine

C4_Witness ==
    /\ Len(layers) >= 2
    /\ layers[1].kind = "extra"
    /\ layers[2].kind = "replace3"
    /\ \E i \in ChainEntries : calls[i].caller = "direct"
    /\ \E i \in ChainEntries : calls[i].caller = "helper"

\* C6: once the cleanup callback has run, a Log/Logf call on the decorator
\* is passed to the test handle during the call, with its resolved
\* file:line, and the buffer is left as it was.
C6_LateCallsEmittedAtOnce ==
    [][(handle = Wrapped /\ ran # "no" /\ Len(calls') = Len(calls) + 1) =>
          LET c == calls'[Len(calls')]
              r == captured'[Len(captured')]
          IN /\ entries' = entries
             /\ Len(captured') = Len(captured) + 1
             /\ Contains(r.text, MsgTok[c.id])
             /\ (c.marking =>
                   SubSeq(r.text, 1, 6) =
                      <<"[">> \o TestFile \o <<":">> \o Itoa(c.siteLine))
      ]_vars

C6_Witness ==
    /\ handle = Wrapped
    /\ ran # "no"
    /\ \E i \in DOMAIN calls : ~calls[i].before /\ calls[i].marking
    /\ Len(captured) >= 2

\* C8: when NTEST_BUFFERING is "false", BufferedLogger(t) returns t itself:
\* no wrapper and no cleanup callback exist, nothing is buffered, and every
\* Log/Logf on the result has reached t when the call returns.
C8_DisabledBufferingReturnsHandle ==
    (env = "false" /\ handle # "none") =>
        /\ handle = MockT
        /\ cleanups = <<>>
        /\ entries = <<>>
        /\ ~cleanupCalled
        /\ Len(captured) = Len(calls)
        /\ \A i \in DOMAIN calls :
              Contains(captured[i].text, MsgTok[calls[i].id])

C8_Witness ==
    /\ env = "false"
    /\ handle = MockT
    /\ Len(calls) >= 2
    /\ Len(captured) >= 2

\* the line "<file>:<line> <message>" of an entry
IsEntryLine(l, e) ==
    LET d == Itoa(e.line)
    IN /\ Len(l) = Len(e.file) + 1 + Len(d) + 1 + Len(e.message)
       /\ SubSeq(l, 1, Len(e.file)) = e.file
       /\ l[Len(e.file) + 1] = ":"
       /\ SubSeq(l, Len(e.file) + 2, Len(e.file) + 1 + Len(d)) = d
       /\ l[Len(e.file) + Len(d) + 2] = " "
       /\ SubSeq(l, Len(e.file) + Len(d) + 3, Len(l)) = e.message

\* C9: the flush passes the whole buffer to the test handle in exactly one
\* Log call, whose text is a header line, then one line
\* "<file>:<line> <message>" per entry in call order, then a footer line.
C9_FlushIsOneLogCall ==
    [][(ran = "no" /\ ran' # "no" /\ ran' # "passed" /\ entries # <<>>) =>
          LET r == captured'[Len(captured')]
              ls == SplitLines(r.text)
          IN /\ Len(captured') = Len(captured) + 1
             /\ r.method = "Log"
             /\ Len(ls) = Len(entries) + 2
             /\ ls[1] = <<"=== Buffered Log Output (test failed) ===">>
             /\ ls[Len(ls)] = <<"=== End Buffered Log Output ===">>
             /\ \A i \in DOMAIN entries : IsEntryLine(ls[i + 1], entries[i])
             /\ r.text[Len(r.text)] = "\n"
      ]_vars

C9_Witness ==
    /\ handle = Wrapped
    /\ ran \in {"failed", "skipped"}
    /\ Len(BeforeCalls) >= 2
    /\ Len(captured) = 1
    /\ IsBlock(captured[1])

LayersOf(h) == SubSeq(h, 1, Len(h) - 1)

\* every layer of the chain is a ReWrapper and the native handle has Run
AllReWrappers(h) ==
    /\ \A i \in 1..(Len(h) - 1) : IsReWrapper(h[i])
    /\ IsRunner(h[Len(h)]) \/ IsRunnerB(h[Len(h)])

\* L1.ReWrap(L2.ReWrap(...Lk.ReWrap(sub)...)) written out from the outside
RECURSIVE NestedReWrap(_, _)
NestedReWrap(ls, sub) ==
    IF ls = <<>> THEN sub
    ELSE ReWrapNode(Head(ls), NestedReWrap(Tail(ls), sub), env, Now).h

\* type and transform of every node of a sequence of nodes
Shape(ns) == [i \in DOMAIN ns |-> <<ns[i].type, ns[i].logger>>]

PrefixOverBuffer(h) ==
    /\ Len(h) = 3
    /\ h[1].type = LoggerT
    /\ h[1].logger.kind = "extra"
    /\ h[2].type = BufferedT

\* every text a native handle has put out, and every message held in a
\* buffer
VisibleIn(t) == {t[x].out[j].text : <<x, j>> \in
                   {p \in {"parent", "sub"} \X (1..MaxCalls + 4) :
                       p[2] <= Len(t[p[1]].out)}}
HeldIn(b) == UNION {{b[id].entries[j].message : j \in DOMAIN b[id].entries} :
                      id \in DOMAIN b}
Visible == VisibleIn(tests)
Held == HeldIn(buffers)

\* wherever tok stands in text, "<prefix> <time> " stands before it on the
\* same line
Prefixed(text, tok, prefix) ==
    \A i \in DOMAIN text : text[i] = tok =>
        \E j \in 1..(i - 4) :
            /\ SubSeq(text, j, j + 3) = <<prefix, " ">> \o TimeStamp \o <<" ">>
            /\ \A k \in j..i : text[k] # "\n"

\* C12 as stated: for ExtraDetailLogger over BufferedLogger, every message
\* logged in the subtest body on the handle Run passed to it carries the
\* prefix wherever it is held or put out, and as long as the subtest has
\* not failed no native handle has put it out.
C12_SubtestHandlePrefixesAndWithholds ==
    (PrefixOverBuffer(chain) /\ spawned = 1 /\ PrefixOverBuffer(fcalls[1])) =>
        \A i \in DOMAIN rcalls : rcalls[i].in = "sub" =>
            /\ \A text \in Visible \cup Held :
                  Prefixed(text, MsgTok[rcalls[i].id], chain[1].logger.prefix)
            /\ ~tests["sub"].failed =>
                  \A text \in Visible : ~Contains(text, MsgTok[rcalls[i].id])

\* walking down from t through ReWrapper layers without Run ends at a
\* handle that has no Run and is no ReWrapper
StopsAtUnsupported(h) ==
    \E i \in DOMAIN h :
        /\ ~IsRunner(h[i]) /\ ~IsRunnerB(h[i]) /\ ~IsReWrapper(h[i])
        /\ \A j \in 1..(i - 1) :
              IsReWrapper(h[j]) /\ ~IsRunner(h[j]) /\ ~IsRunnerB(h[j])

\* what the capturing transforms have collected
CollectedIn(c) == {c[i] : i \in DOMAIN c}

\* in world w a text that was logged says what, then type
SaysIn(w, what, type) ==
    \E text \in VisibleIn(w.t) \cup HeldIn(w.b) \cup CollectedIn(w.c) :
        \E i \in 1..(Len(text) - 1) : text[i] = what /\ text[i + 1] = type
Says(what, type) == SaysIn(Now, what, type)

\* C13: when the chain from t leads to a handle that has no Run and is no
\* ReWrapper, Run(t, name, f) has logged "Run not supported by" with the
\* concrete type of t, the test is failed, Run has returned false, no
\* subtest was started and f was never invoked.
C13_UnsupportedRunFailsTest ==
    (runResult # "none" /\ StopsAtUnsupported(chain)) =>
        /\ runResult = "false"
        /\ spawned = 0
        /\ fcalls = <<>>
        /\ ~tests["sub"].started
        /\ tests["parent"].failed
        /\ Says("Run not supported by ", chain[1].type)

C13_Witness ==
    /\ runResult = "false"
    /\ Len(chain) = 2
    /\ chain[1].type = LoggerT
    /\ chain[1].logger.kind = "extra"
    /\ chain[2].type = PlainT
    /\ tests["parent"].failed
    /\ Len(tests["parent"].out) = 1
    /\ fcalls = <<>>

\* a decorator without ReWrap is one of the layers
HasPlainDecorator(h) ==
    \E i \in DOMAIN h : h[i].type \in {EmbedsT, EmbedsTestingT}
NoPlainDecorator(h) == ~HasPlainDecorator(h)

\* the step in which Run is called
RunStep == runResult = "none" /\ runResult' # "none"

\* C14 as stated: when a decorator of the chain does not implement ReWrap,
\* Run is no error: the subtest is started, f is invoked with a handle
\* around the fresh native handle that lacks that decorator, and Run does
\* not mark the test failed.
C14_DecoratorWithoutReWrapIsNoError ==
    [][(RunStep /\ HasPlainDecorator(chain)) =>
          /\ spawned' = 1
          /\ Len(fcalls') = 1
          /\ NoPlainDecorator(fcalls'[1])
          /\ runResult' = "running"
          /\ tests'["parent"].failed = tests["parent"].failed
      ]_vars

\* the walk from t through ReWrapper layers reaches a decorator without
\* ReWrap that has the Run of the *testing.T it embeds; k is its position
RunsOnDecorator(h, k) ==
    /\ k \in DOMAIN h
    /\ h[k].type = EmbedsTestingT
    /\ \A j \in 1..(k - 1) : IsReWrapper(h[j])

\* C14 as amended: when the walk from t reaches a decorator that does not
\* implement ReWrap but has Run itself (it embeds *testing.T), Run is no
\* error: the subtest is started on it, f is invoked once with the fresh
\* native handle wrapped only in the ReWrapper layers that stood above the
\* decorator, and Run does not mark the test failed.
C14_RunnerDecoratorLosesItsLayer ==
    [][\A k \in DOMAIN chain :
          (RunStep /\ RunsOnDecorator(chain, k)) =>
              /\ spawned' = 1
              /\ Len(fcalls') = 1
              /\ NoPlainDecorator(fcalls'[1])
              /\ fcalls'[1] =
                    NestedReWrap(SubSeq(chain, 1, k - 1),
                                 <<fcalls'[1][Len(fcalls'[1])]>>)
              /\ fcalls'[1][Len(fcalls'[1])].type = TestingT
              /\ fcalls'[1][Len(fcalls'[1])].id.test = "sub"
              /\ runResult' = "running"
              /\ tests'["parent"].failed = tests["parent"].failed
      ]_vars

C14_Witness ==
    /\ phase = "body"
    /\ Len(chain) = 3
    /\ chain[1].type = LoggerT
    /\ chain[2].type = EmbedsTestingT
    /\ Len(fcalls) = 1
    /\ Len(fcalls[1]) = 2
    /\ fcalls[1][1].type = LoggerT
    /\ fcalls[1][2].type = TestingT
    /\ ~tests["parent"].failed

\* the position in handle h of the node that stands depth nodes above the
\* native handle
Above(h, depth) == Len(h) - depth

\* C15 as stated: whatever NTEST_BUFFERING is when Run re-wraps the chain,
\* ReWrap of every bufferedLoggerT layer has returned a bufferedLoggerT
\* around its argument, with an empty buffer of its own and its cleanup
\* callback registered on the fresh native handle.
C15_ReWrapKeepsBuffering ==
    [][(RunStep /\ AllReWrappers(chain)) =>
          \A i \in DOMAIN chain : chain[i].type = BufferedT =>
              LET h == fcalls'[1]
                  k == Above(h, Above(chain, i))
              IN /\ Len(h) = Len(chain)
                 /\ h[k].type = BufferedT
                 /\ h[k].id \in DOMAIN buffers'
                 /\ h[k].id \notin DOMAIN buffers
                 /\ buffers'[h[k].id].entries = <<>>
                 /\ ~buffers'[h[k].id].cleanupCalled
                 /\ buffers'[h[k].id].inner = SubSeq(h, k + 1, Len(h))
                 /\ \E c \in DOMAIN tests'["sub"].cleanups :
                       tests'["sub"].cleanups[c] = h[k].id
      ]_vars

\* the message of the k-th logging statement, as fmt makes it
RunMessage(method, k) ==
    IF method = "Log" THEN <<MsgTok[k], " ", "3">>
    ELSE <<"formatted '", MsgTok[k], "'">>

\* the step in which a statement logs on a handle made by ReplaceLogger
\* with the capturing transform
LogOnCapture ==
    /\ Len(rcalls') = Len(rcalls) + 1
    /\ rcalls'[Len(rcalls')].on[1].type = LoggerT
    /\ rcalls'[Len(rcalls')].on[1].logger.kind = "capture"

\* C16: a Log / Logf call on a handle returned by ReplaceLogger invokes the
\* transform exactly once, with the operands joined by spaces (Log) or
\* formatted by the format (Logf), and neither logs on nor buffers in any
\* handle below: the state of the native handles and every buffer stay as
\* they were.
C16_ReplaceLoggerCallsTransformOnce ==
    [][LogOnCapture =>
          LET c == rcalls'[Len(rcalls')]
          IN /\ capturedLogs' = Append(capturedLogs, RunMessage(c.method, c.id))
             /\ tests' = tests
             /\ DOMAIN buffers' = DOMAIN buffers
             /\ \A id \in DOMAIN buffers :
                   /\ buffers'[id].entries = buffers[id].entries
                   /\ buffers'[id].cleanupCalled = buffers[id].cleanupCalled
      ]_vars

C16_Witness ==
    /\ Len(chain) >= 2
    /\ chain[1].type = LoggerT
    /\ chain[1].logger.kind = "capture"
    /\ chain[2].type = BufferedT
    /\ Len(capturedLogs) = 2
    /\ \E i, j \in DOMAIN rcalls :
          rcalls[i].method = "Log" /\ rcalls[j].method = "Logf"
    /\ \A id \in DOMAIN buffers : buffers[id].entries = <<>>

\* ------------------------------------------------------------------------
\* Claims about nested prefixes
\* ------------------------------------------------------------------------
\* ExtraDetailLogger(ExtraDetailLogger(t, P1), P2)
Doubled ==
    /\ Len(layers) = 2
    /\ layers[1].kind = "extra"
    /\ layers[2].kind = "extra"

\* the texts that have reached the handle under the two layers for the
\* call with this id: the message buffered, or the text logged on t
Reached(id) ==
    {entries[i].message : i \in {j \in DOMAIN entries :
                                   Contains(entries[j].message, MsgTok[id])}}
    \cup {captured[i].text : i \in {j \in DOMAIN captured :
                                     /\ ~IsBlock(captured[j])
                                     /\ Contains(captured[j].text, MsgTok[id])}}

\* in text, token a stands somewhere before token b
Before(text, a, b) ==
    \E i, j \in DOMAIN text : i < j /\ text[i] = a /\ text[j] = b

\* the calls made on the outer handle of the doubled ExtraDetailLogger
DoubledCalls == {i \in DOMAIN calls : Doubled /\ calls[i].level = 2}

\* C17 as stated: with ExtraDetailLogger applied twice (P1 first, P2 around
\* it), the message that reaches the innermost handle holds both prefixes,
\* the outer prefix P2 before the inner prefix P1.
C17_OuterPrefixFirst ==
    \A i \in DoubledCalls :
        /\ Reached(calls[i].id) # {}
        /\ \A text \in Reached(calls[i].id) :
              Before(text, layers[2].prefix, layers[1].prefix)

\* C17 as amended: ... the message that reaches the innermost handle is
\* "<P1> <time> <P2> <time> <message>": both prefixes, the inner prefix P1
\* (wrapped first) before the outer prefix P2, and P2 never before P1.
C17_InnerPrefixFirst ==
    \A i \in DoubledCalls :
        /\ Reached(calls[i].id) # {}
        /\ \A text \in Reached(calls[i].id) :
              /\ Before(text, layers[1].prefix, layers[2].prefix)
              /\ ~Before(text, layers[2].prefix, layers[1].prefix)
              /\ \E a \in DOMAIN text :
                    /\ a + 8 <= Len(text)
                    /\ SubSeq(text, a, a + 7) =
                          <<layers[1].prefix, " ">> \o TimeStamp \o <<" ">>
                          \o <<layers[2].prefix, " ">> \o TimeStamp \o <<" ">>
                    /\ Contains(SubSeq(text, a + 8, Len(text)),
                                MsgTok[calls[i].id])

C17_Witness ==
    /\ handle = Wrapped
    /\ Doubled
    /\ layers[1].prefix = "PREFIX1"
    /\ layers[2].prefix = "PREFIX2"
    /\ \E i \in DoubledCalls : i \in DOMAIN entries
    /\ entries # <<>>

\* ------------------------------------------------------------------------
\* Claims about Parallel and MustParallel
\* ------------------------------------------------------------------------
\* the world after the step
Next1 == World(buffers', tests', capturedLogs')

\* the positions of the handles with Parallel that are t itself or are
\* reached from t by Unwrap through ReWrapper layers without Parallel
ParallelAt(h) ==
    {k \in DOMAIN h :
        /\ IsParallel(h[k])
        /\ \A j \in 1..(k - 1) : IsReWrapper(h[j]) /\ ~IsParallel(h[j])}

\* the step in which fn is called on chain
ParallelStep(fn) ==
    /\ Len(parCalls') = Len(parCalls) + 1
    /\ parCalls'[Len(parCalls')].fn = fn

Returned == Len(ctx) = 2
Cancelled == Returned /\ ctx[2] = "done"
CancelCalled == Times(ctxTrace, "Cancel") > 0
CleanupRan == Times(ctxTrace, "onlyOnce") > 0
ParentIsDone == ctx[1] = "done"

\* C20 as stated: the context AutoCancel returned is cancelled when, and
\* only when, the returned Cancel function has been called or the cleanup
\* AutoCancel registered has run.
C20_CancelledIffCancelOrCleanup ==
    Returned => (Cancelled <=> (CancelCalled \/ CleanupRan))

\* C20 amended: the context AutoCancel returned is cancelled when, and
\* only when, the returned Cancel function has been called, the cleanup
\* AutoCancel registered has run, or the context handed to AutoCancel is
\* done.
C20_CancelledIffCancelCleanupOrParent ==
    Returned => (Cancelled <=> (CancelCalled \/ CleanupRan \/ ParentIsDone))

\* the cleanup alone has cancelled the context of a test that never called
\* Cancel, after a callback registered later had run with it still live
C20_Witness ==
    /\ ctx = <<"background", "done">>
    /\ ~CancelCalled
    /\ CleanupRan
    /\ Times(ctxTrace, "other") > 0
    /\ ctxPhase = "done"

\* ------------------------------------------------------------------------
\* Claims about RunMatrix
\* ------------------------------------------------------------------------
Matrices(args) == {i \in DOMAIN args : args[i].kind = "matrix"}
MatrixOver == mPhase = "returned" /\ \A x \in mTasks : x.st = "done"

\* C21: RunMatrix / RunParallelMatrix called with a chain that has no
\* matrix among its arguments fails the test and returns; no subtest is
\* started and no injection chain is run.
C21_NoMatrixFailsWithoutSubtests ==
    (mPhase \in {"running", "returned"} /\ Matrices(mChain) = {}) =>
        /\ mPhase = "returned"
        /\ mFailed
        /\ mSpawned = EmptyBag
        /\ mRuns = EmptyBag
        /\ mTasks = {}

C21_Witness ==
    /\ mPhase = "returned"
    /\ mT = TestingT
    /\ Len(mChain) = 2
    /\ Matrices(mChain) = {}
    /\ mFailed
    /\ mLog = <<<<"FAIL: matrix test requires a matrix">>>>

\* the one matrix of the chain and what stands around it
TheMatrix == CHOOSE i \in Matrices(mChain) : TRUE
Expected == {Append(MatrixRoot, v) : v \in mChain[TheMatrix].names}
RunsOf(name) == {r \in BagToSet(mRuns) : r.name = name}

\* C22: RunMatrix on a handle with Run and a chain with one matrix of k
\* keys starts k subtests, one for each key and none twice, named
\* <parent>/<key>; in each the injection chain is run once, with the
\* provider of that key in the place of the matrix, on a handle whose
\* Name() is the name of the subtest.
C22_OneSubtestAndOneRunPerVariant ==
    (IsRunner([type |-> mT]) /\ Cardinality(Matrices(mChain)) = 1) =>
        /\ \A name \in BagToSet(mSpawned) :
              name \in Expected /\ CopiesIn(name, mSpawned) = 1
        /\ \A r \in BagToSet(mRuns) :
              /\ CopiesIn(r, mRuns) = 1
              /\ RunsOf(r.name) = {r}
              /\ BagIn(r.name, mSpawned)
              /\ \E v \in mChain[TheMatrix].names :
                    /\ r.name = Append(MatrixRoot, v)
                    /\ \E i \in DOMAIN r.args :
                          /\ r.args[i] = SubChain(v)
                          /\ \A j \in DOMAIN r.args \ {i} :
                                r.args[j].kind # "subChain"
                          /\ TheMatrix - 1 <= i
                          /\ SubSeq(r.args, i - TheMatrix + 1, i - 1) =
                                SubSeq(mChain, 1, TheMatrix - 1)
                          /\ SubSeq(r.args, i + 1, Len(r.args)) =
                                SubSeq(mChain, TheMatrix + 1, Len(mChain))
        /\ MatrixOver =>
              /\ BagToSet(mSpawned) = Expected
              /\ \A name \in Expected : RunsOf(name) # {}

C22_Witness ==
    /\ MatrixOver
    /\ mT = TestingT
    /\ Len(mChain) = 3
    /\ mChain[1].kind = "injector"
    /\ mChain[2] = Matrix(VariantNames)
    /\ mChain[3].kind = "injector"
    /\ BagCardinality(mSpawned) = 2
    /\ BagCardinality(mRuns) = 2

\* ------------------------------------------------------------------------
\* Claims about the entry lock
\* ------------------------------------------------------------------------
\* a Log call stands between its Lock and its Unlock; the cleanup callback
\* stands between its Lock and its Unlock
InLog(g) == pc[g] \in {"read", "emit", "append", "unlock"}
InCleanup == pc[Cleaner] \in {"set", "flush", "unlock"}

\* C23: a goroutine reads cleanupCalled, appends to entries or emits only
\* while it holds entryLock, and the cleanup callback sets cleanupCalled and
\* reads the entries only while it holds entryLock: no Log call is in that
\* part while the cleanup callback is in its own, and no two Log calls are.
C23_EntryLockExcludes ==
    /\ \A g \in Loggers : InLog(g) => entryLock = g
    /\ InCleanup => entryLock = Cleaner
    /\ \A g \in Loggers : ~(InLog(g) /\ InCleanup)

\* a Log call waits for entryLock while the cleanup callback holds it and
\* reads the entries
C23_Witness ==
    /\ pc[Cleaner] = "flush"
    /\ entryLock = Cleaner
    /\ pc["g1"] = "lock"
    /\ pc["g2"] = "lock"
    /\ Len(entries) = 2

\* the Log calls that have taken entryLock, and where in order
TookLock(g, k) == \E i \in DOMAIN order : order[i] = <<g, k>>
At(g, k) == CHOOSE i \in DOMAIN order : order[i] = <<g, k>>
BeforeCleanup(g, k) == TookLock(Cleaner, 0) => At(g, k) < At(Cleaner, 0)
Returned24(g, k) == k <= done[g]
Copies(es, e) == Cardinality({i \in DOMAIN es : es[i] = e})
EmittedNow(g, k) ==
    Cardinality({i \in DOMAIN captured :
        captured[i] = [method |-> "Logf",
                       text |-> <<"[", "lock_test.go", ":">>
                                   \o Itoa(k) \o <<"]", " ">>
                                   \o LockMessage(g, k)]})

\* C24: every Log call that has returned was handled in one way: when it
\* took entryLock before the cleanup callback did, its entry is in the
\* buffer once, is among the entries the callback reads, and was not
\* emitted; when it took the lock after the callback, it was emitted to
\* the inner handle once and is not in the buffer.
C24_BufferedOrEmittedNeverBoth ==
    \A g \in Loggers : \A k \in 1..(MaxLogsEach + 1) :
        Returned24(g, k) =>
            IF BeforeCleanup(g, k)
            THEN /\ Copies(entries, LockEntry(g, k)) = 1
                 /\ EmittedNow(g, k) = 0
                 /\ pc[Cleaner] \in {"unlock", "done"} =>
                       Copies(seen, LockEntry(g, k)) = 1
            ELSE /\ Copies(entries, LockEntry(g, k)) = 0
                 /\ Copies(seen, LockEntry(g, k)) = 0
                 /\ EmittedNow(g, k) = 1

C24_Witness ==
    /\ pc[Cleaner] = "done"
    /\ done["g1"] = 2
    /\ done["g2"] = 1
    /\ BeforeCleanup("g1", 1)
    /\ ~BeforeCleanup("g1", 2)
    /\ ~BeforeCleanup("g2", 1)
    /\ EmittedNow("g1", 2) = 1
    /\ EmittedNow("g2", 1) = 1
    /\ seen = <<LockEntry("g1", 1)>>

\* ------------------------------------------------------------------------
\* Claims about what a subtest handle shares with its parent
\* ------------------------------------------------------------------------
\* a statement of f logs on the handle Run passed to it
SubtestLogs == phase = "body" /\ Len(rcalls') = Len(rcalls) + 1

\* C25 as stated: a Log call on the handle a subtest got from Run leaves
\* the entries of every buffer of the parent and the output of the
\* parent's native handle as they were.
C25_SubtestLogsLeaveParentAlone ==
    [][SubtestLogs =>
          /\ \A id \in DOMAIN buffers :
                id.test = "parent" =>
                    buffers'[id].entries = buffers[id].entries
          /\ tests'["parent"].out = tests["parent"].out
      ]_vars

\* ------------------------------------------------------------------------
\* Claims about the call-site resolver and the helper registry
\* ------------------------------------------------------------------------
\* the frames the resolver walks: at most 32, from the caller of Log on
Walked(stack) ==
    SubSeq(stack, 1, IF Len(stack) < 32 THEN Len(stack) ELSE 32)
NotHelpers(stack, hs) ==
    {i \in DOMAIN Walked(stack) : Walked(stack)[i].fn \notin hs}
FirstNotHelper(stack, hs) ==
    CHOOSE i \in NotHelpers(stack, hs) :
        \A j \in NotHelpers(stack, hs) : i <= j

C27_HelperRegistryOnlyGrows ==
    [][\A fn \in registry.helpers : isHelper(registry'.helpers, fn)]_vars

C27_Witness ==
    /\ cleanupCalled
    /\ Cardinality(registry.helpers) >= 3
    /\ Len(calls) >= 2

\* ------------------------------------------------------------------------
\* Claims about Helper() on a chain of handles
\* ------------------------------------------------------------------------
\* the buffering layers of a handle, outermost first
BufferingLayers(h) == {i \in DOMAIN h : h[i].type = BufferedT}
Marked(fn, node) == isHelper(buffers[node.id].reg.helpers, fn)

\* C28 as stated: once a function has called Helper() on a handle whose
\* outermost layer is a buffering decorator, the function is a helper in
\* the registry of that decorator and in the registry of every buffering
\* decorator beneath it.
C28_HelperMarksEveryBufferingLayer ==
    \A c \in DOMAIN hcalls :
        hcalls[c].on[1].type = BufferedT =>
            \A i \in BufferingLayers(hcalls[c].on) :
                Marked(hcalls[c].fn, hcalls[c].on[i])

\* ------------------------------------------------------------------------
\* Claims about the entries after the cleanup callback
\* ------------------------------------------------------------------------
\* C29 as stated: once the cleanup callback of a buffering decorator has
\* run, the decorator holds no buffered entries, whether the block was put
\* out or the entries were dropped.
C29_EntriesEmptyAfterCleanup ==
    cleanupCalled => entries = <<>>

\* ------------------------------------------------------------------------
\* Claims about the static skip-frame scheme
\* ------------------------------------------------------------------------
\* C30 as stated: whatever handles were built over a BufferedLogger, every
\* Log call on any of them is resolved with a skip count equal to the
\* number of frames between the user's statement and the resolver, and the
\* entry records the file and line of the user's statement.
C30_SkipCountMatchesFrames ==
    \A i \in DOMAIN sEntries :
        /\ sEntries[i].skip = sEntries[i].between
        /\ sEntries[i].file = Base(TestGo)
        /\ sEntries[i].line = sEntries[i].user

\* ------------------------------------------------------------------------
\* C31
\* ------------------------------------------------------------------------
HoldsEntryLock(g) == entryLock = g
HoldsMu(g) == mu.writer = g \/ g \in mu.readers
WaitsForEntryLock(g) == pc[g] = "lock"
WaitsForMu(g) == g \in Loggers /\ pc[g] \in {"mu", "drain", "rlock"}

NoHoldAndWait ==
    \A g \in Loggers \cup {Cleaner} :
        /\ ~(HoldsEntryLock(g) /\ WaitsForMu(g))
        /\ ~(HoldsMu(g) /\ WaitsForEntryLock(g))

\* C31: under fair scheduling every Log, Logf and Helper call on one
\* bufferedLoggerT, and its cleanup callback, returns once it has begun, and
\* no goroutine holds entryLock while it waits for mu or mu while it waits
\* for entryLock
C31_EveryCallReturnsNoHoldAndWait ==
    /\ []NoHoldAndWait
    /\ \A g \in Loggers : (pc[g] # "idle") ~> (pc[g] = "idle")
    /\ (pc[Cleaner] = "set") ~> (pc[Cleaner] = "done")

\* a Log call waits for entryLock while the cleanup holds it and the other
\* goroutine is inside markHelper with mu
C31_Witness ==
    /\ pc["g1"] = "lock"
    /\ entryLock = Cleaner
    /\ op["g2"] = "Helper"
    /\ pc["g2"] = "mark"
    /\ mu.writer = "g2"

\* ------------------------------------------------------------------------
\* C32
\* ------------------------------------------------------------------------
CleanupRuns == Len(cleanups') < Len(cleanups)

DroppedText(n) == <<"dropping ">> \o Itoa(n) \o <<" log entries (test passed)">>

\* C32: a run of the cleanup callback makes exactly one Log/Logf call on the
\* inner handle: the block when the test is failed or skipped and an entry
\* is buffered, else the diagnostic with the number of dropped entries
C32_CleanupMakesOneCall ==
    [][CleanupRuns =>
         /\ Len(captured') = Len(captured) + 1
         /\ SubSeq(captured', 1, Len(captured)) = captured
         /\ LET c == captured'[Len(captured')]
            IN IF (failed \/ skipped) /\ Len(entries) > 0
               THEN IsBlock(c)
               ELSE c = [method |-> "Logf", text |-> DroppedText(Len(entries))]
      ]_vars

\* a failed test whose cleanup ran with an empty buffer: the diagnostic
\* is all the inner handle got
C32_Witness ==
    /\ handle = Wrapped
    /\ ran = "failed"
    /\ entries = <<>>
    /\ captured = <<[method |-> "Logf", text |-> DroppedText(0)]>>

\* ------------------------------------------------------------------------
\* C33
\* ------------------------------------------------------------------------
\* the test has been marked failed or skipped after a cleanup that found
\* it neither
MarkedAfterCleanup == handle = Wrapped /\ ran = "passed" /\ (failed \/ skipped)

\* C33: Failed() and Skipped() are read once, by the cleanup callback: when
\* it found the test neither failed nor skipped, the entries buffered
\* before it are in nothing the test handle receives afterwards, although
\* the test has been marked failed or skipped since
C33_LateFailureEmitsNothingBuffered ==
    MarkedAfterCleanup =>
        /\ cleanups = <<>>
        /\ \A i \in DOMAIN captured :
              /\ ~IsBlock(captured[i])
              /\ \A j \in DOMAIN calls :
                    calls[j].before =>
                        ~Contains(captured[i].text, MsgTok[calls[j].id])

\* the test failed after the cleanup dropped an entry, and has logged since
C33_Witness ==
    /\ MarkedAfterCleanup
    /\ failed
    /\ Len(BeforeCalls) >= 1
    /\ Len(calls) > Len(BeforeCalls)
    /\ Len(captured) >= 2

\* ------------------------------------------------------------------------
\* C34
\* ------------------------------------------------------------------------
\* the handle is BufferedLogger(BufferedLogger(t)), or deeper
Nested(h) == Len(h) >= 3 /\ \A i \in 1..(Len(h) - 1) : h[i].type = BufferedT

AllCleanupsRan ==
    /\ tests["parent"].cleanups = <<>>
    /\ \A i \in 1..(Len(chain) - 1) : buffers[chain[i].id].cleanupCalled

\* how many times a token stands in what the native handle was given
RECURSIVE CountIn(_, _)
CountIn(text, tok) ==
    IF text = <<>> THEN 0
    ELSE (IF Head(text) = tok THEN 1 ELSE 0) + CountIn(Tail(text), tok)

RECURSIVE CountOut(_, _)
CountOut(out, tok) ==
    IF out = <<>> THEN 0
    ELSE CountIn(Head(out).text, tok) + CountOut(Tail(out), tok)

OnceEach ==
    \A c \in DOMAIN rcalls :
        CountOut(tests["parent"].out, MsgTok[rcalls[c].id]) = 1

\* C34 as stated: with BufferedLogger(BufferedLogger(t)) and a test that
\* ends failed, every message logged through the outer handle is exactly
\* once in the output of t, whatever the order of the cleanup callbacks.
C34_NestedMessagesOnceWhenEndsFailed ==
    (Nested(chain) /\ AllCleanupsRan /\ tests["parent"].failed) => OnceEach

\* C34, amended: with BufferedLogger(BufferedLogger(t)) and a test that is
\* failed when the first of the cleanup callbacks runs, every message
\* logged through the outer handle is exactly once in the output of t,
\* whatever the order of the cleanup callbacks.
C34_NestedMessagesOnceWhenFailedAtCleanup ==
    (Nested(chain) /\ AllCleanupsRan /\ ran = "failed") => OnceEach

\* the inner callback ran first, the outer one after it, in a failed test
\* that logged twice before them
C34_Witness ==
    /\ Len(chain) = 3
    /\ Nested(chain)
    /\ AllCleanupsRan
    /\ ran = "failed"
    /\ Len(rcalls) >= 2
    /\ Len(buffers[chain[1].id].entries) >= 2
    /\ buffers[chain[2].id].entries = <<>>

\* ------------------------------------------------------------------------
\* C35, C36
\* ------------------------------------------------------------------------
\* the chain with its matrices replaced, in place and in order, by the
\* providers of the variants named
RECURSIVE InPlace(_, _)
InPlace(args, names) ==
    IF args = <<>> THEN <<>>
    ELSE IF Head(args).kind = "matrix"
         THEN <<SubChain(Head(names))>> \o InPlace(Tail(args), Tail(names))
    ELSE <<Head(args)>> \o InPlace(Tail(args), names)

\* what RunTest was given besides the provider named "testing.T"
UserItems(args) == SelectSeq(args, LAMBDA x : x.kind # "testing.T")

\* the variants of the subtest a RunTest call was made in, outermost first
VariantsOf(r) == SubSeq(r.name, Len(MatrixRoot) + 1, Len(r.name))

\* C35 as stated: the injector list run for a combination of variants is
\* the original chain with each matrix replaced, in place, by the variant
\* chosen for it, every other item keeping its place.
C35_ExpansionKeepsChainOrder ==
    \A r \in BagToSet(mRuns) :
        UserItems(r.args) = InPlace(mChain, VariantsOf(r))

\* C36 as stated: the *testing.T that the provider named "testing.T" hands
\* to the chain of a variant is the handle of the variant's own subtest,
\* never the handle of the test that started it.
C36_NamedProviderGivesOwnSubtest ==
    \A r \in BagToSet(mRuns) :
        \A i \in DOMAIN r.args :
            r.args[i].kind = "testing.T" => r.args[i].of = r.name

\* ------------------------------------------------------------------------
\* C37
\* ------------------------------------------------------------------------
\* the calls made of onlyOnce, by the test and by the test handle
OnlyOnceCalls == Times(ctxTrace, "Cancel") + Times(ctxTrace, "onlyOnce")

\* a step in which onlyOnce is called after it has been called before
LaterCall == OnlyOnceCalls >= 1 /\ Len(ctxTrace') > Len(ctxTrace)
             /\ ctxTrace'[Len(ctxTrace')] \in {"Cancel", "onlyOnce"}

\* C37: however the calls of the returned Cancel function and the cleanup
\* callback AutoCancel registered follow each other, the cancel function of
\* the context has been run once as soon as one of them has been made, and
\* a later call changes neither that nor the contexts
C37_CancelRunsExactlyOnce ==
    /\ [](Returned => once[2] = (IF OnlyOnceCalls >= 1 THEN 1 ELSE 0))
    /\ [][LaterCall => (once' = once /\ ctx' = ctx)]_vars

\* Cancel was called twice in the body and the cleanup callback ran after
C37_Witness ==
    /\ Returned
    /\ Times(ctxTrace, "Cancel") >= 2
    /\ CleanupRan
    /\ ctxTrace[Len(ctxTrace)] = "onlyOnce"
    /\ once = <<TRUE, 1>>
====
